---- MODULE Spec2Model ----
(***************************************************************************)
(* Child behaviour simulation: MoodVector (six clamped scalars), the       *)
(* StateMachine engine with the five ChildAI regimes, the utility action   *)
(* selection, the ChildInteraction pass and the Engine's fixed update.     *)
(*                                                                         *)
(* Numbers.  Time is counted in driver ticks of PHYSICS_STEP = 1/60 s.     *)
(* A mood scalar is an integer number of units, One units being 1.0, with  *)
(* One = 10000 * TicksPerSecond.  A per-second rate r of the source is the *)
(* integer r * 10^4, so that "rate * dt" of the source is exactly          *)
(* rate * dt units here (dt in ticks).  The arithmetic is exact: floating  *)
(* point rounding is not modelled.                                         *)
(***************************************************************************)
EXTENDS Integers, Sequences, FiniteSets, TLC

\* ------------------------------------------------------------------ units
TicksPerSecond == 60
One == 10000 * TicksPerSecond
\* p hundredths of 1.0 (0.7 is Pct(70))
Pct(p) == p * (One \div 100)
\* s seconds in ticks
Sec(s) == s * TicksPerSecond

\* ------------------------------------------------------------- MathUtils
clampLowOnly(value, min, max) == IF value < min THEN min ELSE value

clamp(value, min, max) ==
  LET m == IF value < max THEN value ELSE max
  IN  IF m > min THEN m ELSE min

\* ------------------------------------------------------------ MoodVector
MoodKeys == {"hunger", "boredom", "fatigue", "trust", "mischief", "comfort"}

\* DEFAULT_RATES, per second, times 10^4
hungerGrowth == 30
boredomGrowth == 50
fatigueGrowth == 20
trustDecay == 5
mischiefGrowth == 20
comfortDecay == 10
\* the literal rates of the sleeping branch of update
sleepFatigueRate == 100
sleepBoredomRate == 20
sleepMischiefRate == 30

Mood(h, b, f, t, m, c) ==
  [hunger |-> h, boredom |-> b, fatigue |-> f, trust |-> t, mischief |-> m, comfort |-> c]

\* new MoodVector() with no initial values
DefaultMood == Mood(Pct(20), Pct(10), Pct(30), Pct(50), Pct(10), Pct(80))

happinessWithMischief(v) ==
  (One - v.hunger) * 25 + (One - v.boredom) * 20 + (One - v.fatigue) * 15
    + v.trust * 20 + v.comfort * 20 - v.mischief * 5

\* get happiness, in hundredths of a unit (the weights are 0.25, 0.20, ...)
happiness(v) ==
  (One - v.hunger) * 25 + (One - v.boredom) * 20 + (One - v.fatigue) * 15
    + v.trust * 20 + v.comfort * 20

\* as urgentNeed, the last of the greatest needs taken
urgentNeedLastMax(v) ==
  LET c == One - v.comfort
  IN  IF v.hunger > v.boredom /\ v.hunger > v.fatigue /\ v.hunger > c THEN "hunger"
      ELSE IF v.boredom > v.fatigue /\ v.boredom > c THEN "boredom"
      ELSE IF v.fatigue > c THEN "fatigue"
      ELSE "comfort"

\* get urgentNeed: the needs sorted by descending value (a stable sort), first one
urgentNeed(v) ==
  LET c == One - v.comfort
  IN  IF v.hunger >= v.boredom /\ v.hunger >= v.fatigue /\ v.hunger >= c THEN "hunger"
      ELSE IF v.boredom >= v.fatigue /\ v.boredom >= c THEN "boredom"
      ELSE IF v.fatigue >= c THEN "fatigue"
      ELSE "comfort"

hasUrgentNeed(v, threshold) ==
  \/ v.hunger > threshold
  \/ v.boredom > threshold
  \/ v.fatigue > threshold
  \/ v.comfort < One - threshold
  \/ v.mischief > threshold

isCritical(v, threshold) ==
  \/ v.hunger > threshold
  \/ v.fatigue > threshold
  \/ v.trust < One - threshold

\* as update, with hunger growing in sleep as well
updateHungryAsleep(v, dt, isSleeping, isPlaying, isBeingHeld) ==
  LET hunger == clamp(v.hunger + hungerGrowth * dt, 0, One)
      boredom == IF ~isSleeping
                 THEN IF ~isPlaying
                      THEN clamp(v.boredom + boredomGrowth * dt, 0, One)
                      ELSE clamp(v.boredom - boredomGrowth * 2 * dt, 0, One)
                 ELSE clamp(v.boredom - sleepBoredomRate * dt, 0, One)
      fatigue == IF ~isSleeping THEN clamp(v.fatigue + fatigueGrowth * dt, 0, One)
                 ELSE clamp(v.fatigue - sleepFatigueRate * dt, 0, One)
      mischief == IF ~isSleeping
                  THEN IF boredom > Pct(50) /\ fatigue < Pct(70)
                       THEN clamp(v.mischief + mischiefGrowth * dt, 0, One)
                       ELSE clamp(v.mischief - (mischiefGrowth * dt) \div 2, 0, One)
                  ELSE clamp(v.mischief - sleepMischiefRate * dt, 0, One)
      trust == IF ~isBeingHeld THEN clamp(v.trust - trustDecay * dt, 0, One)
               ELSE v.trust
      comfort == clamp(v.comfort - comfortDecay * dt, 0, One)
  IN  Mood(hunger, boredom, fatigue, trust, mischief, comfort)

\* MoodVector.update(dt, isSleeping, isPlaying, isBeingHeld)
update(v, dt, isSleeping, isPlaying, isBeingHeld) ==
  LET hunger == IF ~isSleeping THEN clamp(v.hunger + hungerGrowth * dt, 0, One)
                ELSE v.hunger
      boredom == IF ~isSleeping
                 THEN IF ~isPlaying
                      THEN clamp(v.boredom + boredomGrowth * dt, 0, One)
                      ELSE clamp(v.boredom - boredomGrowth * 2 * dt, 0, One)
                 ELSE clamp(v.boredom - sleepBoredomRate * dt, 0, One)
      fatigue == IF ~isSleeping THEN clamp(v.fatigue + fatigueGrowth * dt, 0, One)
                 ELSE clamp(v.fatigue - sleepFatigueRate * dt, 0, One)
      mischief == IF ~isSleeping
                  THEN IF boredom > Pct(50) /\ fatigue < Pct(70)
                       THEN clamp(v.mischief + mischiefGrowth * dt, 0, One)
                       ELSE clamp(v.mischief - (mischiefGrowth * dt) \div 2, 0, One)
                  ELSE clamp(v.mischief - sleepMischiefRate * dt, 0, One)
      trust == IF ~isBeingHeld THEN clamp(v.trust - trustDecay * dt, 0, One)
               ELSE v.trust
      comfort == clamp(v.comfort - comfortDecay * dt, 0, One)
  IN  Mood(hunger, boredom, fatigue, trust, mischief, comfort)

\* MoodVector.apply(changes): changes is a record over some of the keys
apply(v, changes) ==
  [k \in MoodKeys |->
     IF k \in DOMAIN changes THEN clamp(v[k] + changes[k], 0, One) ELSE v[k]]

feed(v, amount) ==
  apply(v, [hunger |-> -amount, trust |-> Pct(5), comfort |-> Pct(2)])

play(v, amount) ==
  apply(v, [boredom |-> -amount, trust |-> Pct(3), mischief |-> -Pct(2)])

comfortChild(v, amount) ==
  apply(v, [comfort |-> amount, trust |-> Pct(5), mischief |-> -Pct(3)])

InRange(v) == \A k \in MoodKeys : v[k] >= 0 /\ v[k] <= One

\* ---------------------------------------------------------------- state
VARIABLES
  children,   \* Engine.children / ChildInteraction.children: index -> Child
  ais,        \* Engine.childAIs: index -> ChildAI (fsm state, currentAction, actionTimer, context)
  emitted,    \* the EventBus signals emitted by the last step, in order
  last,       \* per child, what StateMachine.update did in the last fixed update
  ticks,      \* fixed updates run so far
  budget,     \* calls of external collaborators still allowed
  script,     \* the call the external collaborators make in this run
  mv,         \* a stand-alone MoodVector object (its values)
  obs,        \* what was last read from that MoodVector, and the calls made on it
  pass,       \* the children as the last interaction pass found them, and its dt
  rt,         \* two MoodVectors advanced side by side with different step sizes
  sm,         \* a StateMachine object on its own: its states, current state, last call
  gen         \* the calls of Child.generate made so far and what they returned

driverVars == <<children, ais, emitted, last, ticks, budget, script, pass>>
vars == <<children, ais, emitted, last, ticks, budget, script, pass, mv, obs, rt, sm, gen>>

\* --------------------------------------------------------- bounds, inputs
NChildren == 2
MaxTicks == 4
MaxExternal == 1
MaxMoodSteps == 2
MaxMachineCalls == 4

Ids == 1 .. NChildren
AgeGroups == {"infant", "toddler", "child"}

\* ------------------------------------------------------------- ChildAI
Sleeping == "sleeping"
Content == "content"
Needy == "needy"
Upset == "upset"
Tantrum == "tantrum"
ChildState == {Sleeping, Content, Needy, Upset, Tantrum}

ContentAction == {"play_alone", "play_sibling", "watch_tv", "follow_player", "explore", "sit_idle"}
NeedyAction == {"request_food", "request_attention", "request_comfort", "request_bathroom"}
UpsetAction == {"crying", "hiding", "refusing", "breaking"}
TantrumAction == {"screaming", "throwing", "floor_tantrum", "contagious_crying"}

\* the timeouts and re-evaluation intervals, in seconds
ContentInterval == 10
NeedyInterval == 15
UpsetTimeout == 30
TantrumTimeoutLonger == 45 + 1
TantrumTimeout == 45
ProximityRadius == 3

\* A world is the part of the state the fixed update reads and writes.
World(ch, ai, ev, lg) == [ch |-> ch, ai |-> ai, ev |-> ev, lg |-> lg]

Emit(w, e) == [w EXCEPT !.ev = Append(@, e)]

\* as FirstMax, the last of the greatest scores taken
LastMax(scores) ==
  CHOOSE k \in 1 .. Len(scores) :
    /\ \A j \in 1 .. Len(scores) : scores[j][2] <= scores[k][2]
    /\ \A j \in (k + 1) .. Len(scores) : scores[j][2] < scores[k][2]

\* the first index of a non-empty sequence of <<label, score>> with the greatest score:
\* scores.sort((a, b) => b[1] - a[1]) is stable, so scores[0] is the first maximum
FirstMax(scores) ==
  CHOOSE k \in 1 .. Len(scores) :
    /\ \A j \in 1 .. Len(scores) : scores[j][2] <= scores[k][2]
    /\ \A j \in 1 .. (k - 1) : scores[j][2] < scores[k][2]

\* as SetAction, without the 'child.action' signal
SetActionSilent(w, i, label) ==
  [w EXCEPT !.ai[i].currentAction = label, !.ai[i].actionTimer = 0]

\* the action label set, actionTimer reset, 'child.action' emitted
SetAction(w, i, label) ==
  Emit([w EXCEPT !.ai[i].currentAction = label, !.ai[i].actionTimer = 0],
       <<"child.action", i, label>>)

\* scores in tenths of a unit (the weights are 0.6, 0.3, ...)
ContentScores(w, i) ==
  LET mood == w.ch[i].mood
      personality == w.ch[i].personality
      base == << <<"play_alone", mood.boredom * 6 + (One - mood.fatigue) * 3>>,
                 <<"watch_tv", mood.boredom * 4 + mood.fatigue * 3>>,
                 <<"follow_player", personality.clinginess * 5 + (One - mood.trust) * 3>>,
                 <<"explore", personality.curiosity * 5 + mood.boredom * 3>>,
                 <<"sit_idle", mood.fatigue * 6>> >>
  IN  IF w.ai[i].nearestSibling
      THEN Append(base, <<"play_sibling", mood.boredom * 5 + Pct(30) * 10>>)
      ELSE base

pickContentAction(w, i) ==
  LET scores == ContentScores(w, i)
  IN  SetAction(w, i, scores[FirstMax(scores)][1])

\* as pickNeedyAction, without the default branch: the action stays what it was
pickNeedyActionNoDefault(w, i) ==
  LET need == urgentNeed(w.ch[i].mood)
  IN  SetAction(w, i,
        CASE need = "hunger" -> "request_food"
          [] need = "boredom" -> "request_attention"
          [] need = "comfort" -> "request_comfort"
          [] OTHER -> w.ai[i].currentAction)

pickNeedyAction(w, i) ==
  LET need == urgentNeed(w.ch[i].mood)
  IN  SetAction(w, i,
        CASE need = "hunger" -> "request_food"
          [] need = "boredom" -> "request_attention"
          [] need = "comfort" -> "request_comfort"
          [] OTHER -> "request_attention")

\* as pickUpsetAction, stubbornness asked before shyness
pickUpsetActionStubbornFirst(w, i) ==
  LET personality == w.ch[i].personality
  IN  SetAction(w, i,
        IF personality.stubbornness > Pct(60) THEN "refusing"
        ELSE IF personality.shyness > Pct(60) THEN "hiding"
        ELSE IF personality.energy > Pct(60) /\ w.ch[i].mood.mischief > Pct(50) THEN "breaking"
        ELSE "crying")

pickUpsetAction(w, i) ==
  LET personality == w.ch[i].personality
  IN  SetAction(w, i,
        IF personality.shyness > Pct(60) THEN "hiding"
        ELSE IF personality.stubbornness > Pct(60) THEN "refusing"
        ELSE IF personality.energy > Pct(60) /\ w.ch[i].mood.mischief > Pct(50) THEN "breaking"
        ELSE "crying")

\* as pickTantrumAction, the actionTimer left as the regime before left it
pickTantrumActionKeepsTimer(w, i) ==
  LET personality == w.ch[i].personality
      picked == SetAction(w, i,
                  IF personality.energy > Pct(70) THEN "throwing"
                  ELSE IF personality.stubbornness > Pct(70) THEN "floor_tantrum"
                  ELSE "screaming")
  IN  [picked EXCEPT !.ai[i].actionTimer = w.ai[i].actionTimer]

pickTantrumAction(w, i) ==
  LET personality == w.ch[i].personality
  IN  SetAction(w, i,
        IF personality.energy > Pct(70) THEN "throwing"
        ELSE IF personality.stubbornness > Pct(70) THEN "floor_tantrum"
        ELSE "screaming")

\* ---------------------------------------------------------- StateMachine
\* buildStates: the transitions of each state, in the order they are listed
Tr(to, cond, priority) == [to |-> to, cond |-> cond, priority |-> priority]

\* as transitions, with no way from Needy up to Upset
transitionsNoEscalation(state) ==
  CASE state = Sleeping -> << Tr(Content, "rested", 1), Tr(Needy, "hungry", 2) >>
    [] state = Content -> << Tr(Needy, "urgent", 1), Tr(Sleeping, "exhausted", 2) >>
    [] state = Needy -> << Tr(Content, "satisfied", 1) >>
    [] state = Upset -> << Tr(Needy, "calmed", 1), Tr(Tantrum, "escalate", 2) >>
    [] state = Tantrum -> << Tr(Upset, "resolved", 1), Tr(Sleeping, "collapsed", 2) >>
    [] OTHER -> << >>

\* as transitions, a Content child not sent to Needy by an urgent need
transitionsNoUrgent(state) ==
  CASE state = Sleeping -> << Tr(Content, "rested", 1), Tr(Needy, "hungry", 2) >>
    [] state = Content -> << Tr(Sleeping, "exhausted", 2) >>
    [] state = Needy -> << Tr(Content, "satisfied", 1), Tr(Upset, "critical", 2) >>
    [] state = Upset -> << Tr(Needy, "calmed", 1), Tr(Tantrum, "escalate", 2) >>
    [] state = Tantrum -> << Tr(Upset, "resolved", 1), Tr(Sleeping, "collapsed", 2) >>
    [] OTHER -> << >>

transitions(state) ==
  CASE state = Sleeping -> << Tr(Content, "rested", 1), Tr(Needy, "hungry", 2) >>
    [] state = Content -> << Tr(Needy, "urgent", 1), Tr(Sleeping, "exhausted", 2) >>
    [] state = Needy -> << Tr(Content, "satisfied", 1), Tr(Upset, "critical", 2) >>
    [] state = Upset -> << Tr(Needy, "calmed", 1), Tr(Tantrum, "escalate", 2) >>
    [] state = Tantrum -> << Tr(Upset, "resolved", 1), Tr(Sleeping, "collapsed", 2) >>
    [] OTHER -> << >>

\* as condition, with a Needy child never found critical
conditionNeverCritical(cond, mood, actionTimer) ==
  CASE cond = "rested" -> mood.fatigue < Pct(30)
    [] cond = "hungry" -> mood.hunger > Pct(80)
    [] cond = "urgent" -> hasUrgentNeed(mood, Pct(70))
    [] cond = "exhausted" -> mood.fatigue > Pct(90)
    [] cond = "satisfied" -> ~hasUrgentNeed(mood, Pct(50))
    [] cond = "critical" -> FALSE
    [] cond = "calmed" -> mood.trust > Pct(35) /\ ~isCritical(mood, Pct(85))
    [] cond = "escalate" -> \/ actionTimer > Sec(UpsetTimeout)
                            \/ (mood.hunger > Pct(90) /\ mood.fatigue > Pct(80))
    [] cond = "resolved" -> actionTimer > Sec(TantrumTimeout) \/ mood.fatigue > Pct(95)
    [] cond = "collapsed" -> mood.fatigue > Pct(98)
    [] OTHER -> FALSE

\* as condition, with Needy left at the threshold Content is left at
conditionNoHysteresis(cond, mood, actionTimer) ==
  CASE cond = "rested" -> mood.fatigue < Pct(30)
    [] cond = "hungry" -> mood.hunger > Pct(80)
    [] cond = "urgent" -> hasUrgentNeed(mood, Pct(70))
    [] cond = "exhausted" -> mood.fatigue > Pct(90)
    [] cond = "satisfied" -> ~hasUrgentNeed(mood, Pct(70))
    [] cond = "critical" -> isCritical(mood, Pct(85)) \/ mood.trust < Pct(20)
    [] cond = "calmed" -> mood.trust > Pct(35) /\ ~isCritical(mood, Pct(85))
    [] cond = "escalate" -> \/ actionTimer > Sec(UpsetTimeout)
                            \/ (mood.hunger > Pct(90) /\ mood.fatigue > Pct(80))
    [] cond = "resolved" -> actionTimer > Sec(TantrumTimeout) \/ mood.fatigue > Pct(95)
    [] cond = "collapsed" -> mood.fatigue > Pct(98)
    [] OTHER -> FALSE

\* the guard of a transition, on the child's mood and the ChildAI's actionTimer
condition(cond, mood, actionTimer) ==
  CASE cond = "rested" -> mood.fatigue < Pct(30)
    [] cond = "hungry" -> mood.hunger > Pct(80)
    [] cond = "urgent" -> hasUrgentNeed(mood, Pct(70))
    [] cond = "exhausted" -> mood.fatigue > Pct(90)
    [] cond = "satisfied" -> ~hasUrgentNeed(mood, Pct(50))
    [] cond = "critical" -> isCritical(mood, Pct(85)) \/ mood.trust < Pct(20)
    [] cond = "calmed" -> mood.trust > Pct(35) /\ ~isCritical(mood, Pct(85))
    [] cond = "escalate" -> \/ actionTimer > Sec(UpsetTimeout)
                            \/ (mood.hunger > Pct(90) /\ mood.fatigue > Pct(80))
    [] cond = "resolved" -> actionTimer > Sec(TantrumTimeout) \/ mood.fatigue > Pct(95)
    [] cond = "collapsed" -> mood.fatigue > Pct(98)
    [] OTHER -> FALSE

\* no state of ChildAI has a sub-machine
hasSubStates(state) == FALSE

sortedAsListed(ts) == ts

\* [...transitions].sort((a, b) => b.priority - a.priority): stable, descending
sorted(ts) ==
  LET before(a, b) == \/ ts[a].priority > ts[b].priority
                      \/ (ts[a].priority = ts[b].priority /\ a < b)
      rank(a) == 1 + Cardinality({b \in 1 .. Len(ts) : before(b, a)})
  IN  [k \in 1 .. Len(ts) |-> ts[CHOOSE a \in 1 .. Len(ts) : rank(a) = k]]

\* the targets of the current state's transitions whose guards hold now
heldTargets(w, i) ==
  LET ts == transitions(w.ai[i].state)
  IN  {ts[k].to : k \in {k \in 1 .. Len(ts) :
                           condition(ts[k].cond, w.ch[i].mood, w.ai[i].actionTimer)}}

\* as onExit, with Sleeping left without clearing the flag
onExitKeepsFlag(w, i, state) == w

onExit(w, i, state) ==
  IF state = Sleeping THEN [w EXCEPT !.ch[i].isSleeping = FALSE] ELSE w

\* as onEnter, the action selected before the regime change is signalled
onEnterActionFirst(w, i, state) ==
  CASE state = Sleeping ->
         Emit([w EXCEPT !.ch[i].isSleeping = TRUE], <<"child.stateChange", i, state>>)
    [] state = Content -> Emit(pickContentAction(w, i), <<"child.stateChange", i, state>>)
    [] state = Needy -> Emit(pickNeedyAction(w, i), <<"child.stateChange", i, state>>)
    [] state = Upset -> Emit(pickUpsetAction(w, i), <<"child.stateChange", i, state>>)
    [] state = Tantrum ->
         Emit(Emit(pickTantrumAction(w, i), <<"child.stateChange", i, state>>),
              <<"child.tantrum", i>>)
    [] OTHER -> w

onEnter(w, i, state) ==
  LET changed == Emit(w, <<"child.stateChange", i, state>>)
  IN  CASE state = Sleeping ->
             Emit([w EXCEPT !.ch[i].isSleeping = TRUE], <<"child.stateChange", i, state>>)
        [] state = Content -> pickContentAction(changed, i)
        [] state = Needy -> pickNeedyAction(changed, i)
        [] state = Upset -> pickUpsetAction(changed, i)
        [] state = Tantrum -> Emit(pickTantrumAction(changed, i), <<"child.tantrum", i>>)
        [] OTHER -> w

\* StateMachine.transitionTo(stateName)
transitionTo(w, i, stateName) ==
  IF stateName \notin ChildState
  THEN w    \* console.warn, nothing else
  ELSE LET cur == w.ai[i].state
           exited == IF cur # "none" THEN onExit(w, i, cur) ELSE w
       IN  onEnter([exited EXCEPT !.ai[i].state = stateName], i, stateName)

\* the 'child.contagiousCry' listener of ChildInteraction
onContagiousCry(w, cryingChildId) ==
  [w EXCEPT !.ch = [c \in DOMAIN w.ch |->
     IF c = cryingChildId THEN w.ch[c]
     ELSE IF w.ch[c].age = "infant"
          THEN [w.ch[c] EXCEPT !.mood = apply(@, [comfort |-> -Pct(10)])]
     ELSE IF w.ch[c].mood.comfort < Pct(50)
          THEN [w.ch[c] EXCEPT !.mood = apply(@, [comfort |-> -Pct(5)])]
     ELSE w.ch[c]]]

\* the 'child.trustDrop' listener of ChildInteraction
onTrustDrop(w, childId, newTrust) ==
  IF childId \in DOMAIN w.ch THEN [w EXCEPT !.ch[childId].mood.trust = newTrust] ELSE w

\* as onUpdate, with no timed re-selection in Needy
onUpdateNeedyOnce(w, i, state, dt) ==
  LET timed == [w EXCEPT !.ai[i].actionTimer = @ + dt]
  IN  CASE state = Sleeping -> w
        [] state = Content ->
             LET picked == IF timed.ai[i].actionTimer > Sec(ContentInterval)
                           THEN pickContentAction(timed, i) ELSE timed
             IN  [picked EXCEPT !.ch[i].isPlaying =
                    picked.ai[i].currentAction \in {"play_alone", "play_sibling"}]
        [] state = Needy -> timed
        [] state = Upset -> Emit(timed, <<"child.upset", i, dt>>)
        [] state = Tantrum ->
             LET ticked == Emit(Emit(timed, <<"child.tantrum.tick", i, dt>>),
                                <<"player.stressSource", "tantrum", dt>>)
             IN  IF ticked.ai[i].currentAction = "contagious_crying"
                 THEN onContagiousCry(Emit(ticked, <<"child.contagiousCry", i>>), i)
                 ELSE ticked
        [] OTHER -> w

onUpdate(w, i, state, dt) ==
  LET timed == [w EXCEPT !.ai[i].actionTimer = @ + dt]
  IN  CASE state = Sleeping -> w
        [] state = Content ->
             LET picked == IF timed.ai[i].actionTimer > Sec(ContentInterval)
                           THEN pickContentAction(timed, i) ELSE timed
             IN  [picked EXCEPT !.ch[i].isPlaying =
                    picked.ai[i].currentAction \in {"play_alone", "play_sibling"}]
        [] state = Needy ->
             IF timed.ai[i].actionTimer > Sec(NeedyInterval)
             THEN pickNeedyAction(timed, i) ELSE timed
        [] state = Upset -> Emit(timed, <<"child.upset", i, dt>>)
        [] state = Tantrum ->
             LET ticked == Emit(Emit(timed, <<"child.tantrum.tick", i, dt>>),
                                <<"player.stressSource", "tantrum", dt>>)
             IN  IF ticked.ai[i].currentAction = "contagious_crying"
                 THEN onContagiousCry(Emit(ticked, <<"child.contagiousCry", i>>), i)
                 ELSE ticked
        [] OTHER -> w

\* as fsmUpdate, without the return after transitionTo
fsmUpdateNoReturn(w, i, dt) ==
  LET state == w.ai[i].state
      ts == sorted(transitions(state))
      firing == {k \in 1 .. Len(ts) :
                   condition(ts[k].cond, w.ch[i].mood, w.ai[i].actionTimer)}
      entry == [from |-> state, held |-> heldTargets(w, i), seen |-> w.ch[i].mood,
                timer |-> w.ai[i].actionTimer, entered |-> w.lg[i].fired,
                stayed |-> w.lg[i].since]
      moved == IF firing # {}
               THEN transitionTo(w, i, ts[CHOOSE k \in firing : \A j \in firing : k <= j].to)
               ELSE w
      done == onUpdate(moved, i, moved.ai[i].state, dt)
  IN  IF state = "none" THEN w
      ELSE [done EXCEPT !.lg[i] = entry @@ [fired |-> firing # {}, to |-> moved.ai[i].state,
                                            since |-> IF firing # {} THEN 0 ELSE w.lg[i].since + 1,
                                            ran |-> moved.ai[i].state,
                                            sub |-> hasSubStates(moved.ai[i].state)]]

\* as fsmUpdate, the loop over the transitions not left after the first that fires
fsmUpdateEveryHeld(w, i, dt) ==
  LET state == w.ai[i].state
      ts == sorted(transitions(state))
      firing == {k \in 1 .. Len(ts) :
                   condition(ts[k].cond, w.ch[i].mood, w.ai[i].actionTimer)}
      entry == [from |-> state, held |-> heldTargets(w, i), seen |-> w.ch[i].mood,
                timer |-> w.ai[i].actionTimer, entered |-> w.lg[i].fired,
                stayed |-> w.lg[i].since]
  IN  IF state = "none" THEN w
      ELSE IF firing # {}
      THEN LET k == CHOOSE k \in firing : \A j \in firing : k <= j
               m == CHOOSE m \in firing : \A j \in firing : m >= j
               once == transitionTo(w, i, ts[k].to)
               done == IF m = k THEN once ELSE transitionTo(once, i, ts[m].to)
           IN  [done EXCEPT !.lg[i] = entry @@ [fired |-> TRUE, to |-> done.ai[i].state,
                                                since |-> 0, ran |-> "none", sub |-> FALSE]]
      ELSE LET done == onUpdate(w, i, state, dt)
           IN  [done EXCEPT !.lg[i] = entry @@ [fired |-> FALSE, to |-> state,
                                                since |-> w.lg[i].since + 1,
                                                ran |-> state, sub |-> hasSubStates(state)]]

\* StateMachine.update(dt), with what it did written to the log
fsmUpdate(w, i, dt) ==
  LET state == w.ai[i].state
      ts == sorted(transitions(state))
      firing == {k \in 1 .. Len(ts) :
                   condition(ts[k].cond, w.ch[i].mood, w.ai[i].actionTimer)}
      entry == [from |-> state, held |-> heldTargets(w, i), seen |-> w.ch[i].mood,
                timer |-> w.ai[i].actionTimer, entered |-> w.lg[i].fired,
                stayed |-> w.lg[i].since]
  IN  IF state = "none" THEN w
      ELSE IF firing # {}
      THEN LET k == CHOOSE k \in firing : \A j \in firing : k <= j
               done == transitionTo(w, i, ts[k].to)
           IN  [done EXCEPT !.lg[i] = entry @@ [fired |-> TRUE, to |-> ts[k].to, since |-> 0,
                                                ran |-> "none", sub |-> FALSE]]
      ELSE LET done == onUpdate(w, i, state, dt)
           IN  [done EXCEPT !.lg[i] = entry @@ [fired |-> FALSE, to |-> state,
                                                since |-> w.lg[i].since + 1,
                                                ran |-> state, sub |-> hasSubStates(state)]]

\* as aiUpdate, the state machine updated before the mood
aiUpdateMachineFirst(w, i, dt, tvIsOn) ==
  LET ctx == [w EXCEPT !.ai[i].tvIsOn = tvIsOn]
      c == ctx.ch[i]
      decided == fsmUpdate(ctx, i, dt)
  IN  [decided EXCEPT !.ch[i].mood =
         update(@, dt, c.isSleeping, c.isPlaying, c.isBeingCarried)]

\* ChildAI.update(dt, playerDistance, tvIsOn)
aiUpdate(w, i, dt, tvIsOn) ==
  LET ctx == [w EXCEPT !.ai[i].tvIsOn = tvIsOn]
      c == ctx.ch[i]
      moved == [ctx EXCEPT !.ch[i].mood =
                  update(c.mood, dt, c.isSleeping, c.isPlaying, c.isBeingCarried)]
  IN  fsmUpdate(moved, i, dt)

\* ------------------------------------------------------ ChildInteraction
\* the per-second amounts of the pairwise rules, times 10^4
fightComfortRate == 200
coopPlayRate == 50
bullyComfortRate == 300
bullyTrustRate == 100

distanceTo(p, q) == IF p >= q THEN p - q ELSE q - p

\* the body of the nested loop of ChildInteraction.update for a = children[i], b = children[j]
\* as passPair, the fight decided by the first child's mischief alone
passPairFirstOnly(w, i, j, dt) ==
  LET a == w.ch[i]
      b == w.ch[j]
      apart == a.currentRoom # b.currentRoom \/ distanceTo(a.position, b.position) > ProximityRadius
      shared ==
        IF a.isPlaying /\ b.isPlaying
        THEN IF a.mood.mischief > Pct(70)
             THEN Emit([w EXCEPT !.ch[i].mood = apply(@, [comfort |-> -(fightComfortRate * dt)]),
                                 !.ch[j].mood = apply(@, [comfort |-> -(fightComfortRate * dt)])],
                       <<"child.fighting", i, j>>)
             ELSE [w EXCEPT !.ch[i].mood = play(@, coopPlayRate * dt),
                            !.ch[j].mood = play(@, coopPlayRate * dt)]
        ELSE w
      bullied ==
        IF /\ shared.ch[i].age = "child"
           /\ shared.ch[j].age # "child"
           /\ shared.ch[i].mood.mischief > Pct(70)
        THEN Emit([shared EXCEPT !.ch[j].mood = apply(@, [comfort |-> -(bullyComfortRate * dt),
                                                          trust |-> -(bullyTrustRate * dt)])],
                  <<"child.bullying", i, j>>)
        ELSE shared
  IN  IF apart THEN w ELSE bullied

\* as passPair, applied to every pair within the radius, whatever their rooms
passPairAnyRoom(w, i, j, dt) ==
  LET a == w.ch[i]
      b == w.ch[j]
      apart == distanceTo(a.position, b.position) > ProximityRadius
      shared ==
        IF a.isPlaying /\ b.isPlaying
        THEN IF a.mood.mischief > Pct(70) \/ b.mood.mischief > Pct(70)
             THEN Emit([w EXCEPT !.ch[i].mood = apply(@, [comfort |-> -(fightComfortRate * dt)]),
                                 !.ch[j].mood = apply(@, [comfort |-> -(fightComfortRate * dt)])],
                       <<"child.fighting", i, j>>)
             ELSE [w EXCEPT !.ch[i].mood = play(@, coopPlayRate * dt),
                            !.ch[j].mood = play(@, coopPlayRate * dt)]
        ELSE w
      bullied ==
        IF /\ shared.ch[i].age = "child"
           /\ shared.ch[j].age # "child"
           /\ shared.ch[i].mood.mischief > Pct(70)
        THEN Emit([shared EXCEPT !.ch[j].mood = apply(@, [comfort |-> -(bullyComfortRate * dt),
                                                          trust |-> -(bullyTrustRate * dt)])],
                  <<"child.bullying", i, j>>)
        ELSE shared
  IN  IF apart THEN w ELSE bullied

passPair(w, i, j, dt) ==
  LET a == w.ch[i]
      b == w.ch[j]
      apart == a.currentRoom # b.currentRoom \/ distanceTo(a.position, b.position) > ProximityRadius
      shared ==
        IF a.isPlaying /\ b.isPlaying
        THEN IF a.mood.mischief > Pct(70) \/ b.mood.mischief > Pct(70)
             THEN Emit([w EXCEPT !.ch[i].mood = apply(@, [comfort |-> -(fightComfortRate * dt)]),
                                 !.ch[j].mood = apply(@, [comfort |-> -(fightComfortRate * dt)])],
                       <<"child.fighting", i, j>>)
             ELSE [w EXCEPT !.ch[i].mood = play(@, coopPlayRate * dt),
                            !.ch[j].mood = play(@, coopPlayRate * dt)]
        ELSE w
      bullied ==
        IF /\ shared.ch[i].age = "child"
           /\ shared.ch[j].age # "child"
           /\ shared.ch[i].mood.mischief > Pct(70)
        THEN Emit([shared EXCEPT !.ch[j].mood = apply(@, [comfort |-> -(bullyComfortRate * dt),
                                                          trust |-> -(bullyTrustRate * dt)])],
                  <<"child.bullying", i, j>>)
        ELSE shared
  IN  IF apart THEN w ELSE bullied

\* the index pairs (i, j), i < j, of a list of n children in the order of the two loops
RECURSIVE pairsFrom(_, _, _)
pairsFrom(i, j, n) ==
  IF i >= n THEN << >>
  ELSE IF j > n THEN pairsFrom(i + 1, i + 2, n)
  ELSE << <<i, j>> >> \o pairsFrom(i, j + 1, n)

RECURSIVE passOver(_, _, _, _)
passOver(w, order, ps, dt) ==
  IF ps = << >> THEN w
  ELSE passOver(passPair(w, order[Head(ps)[1]], order[Head(ps)[2]], dt), order, Tail(ps), dt)

\* ChildInteraction.update(dt) over the children listed in `order`
interactionUpdate(w, order, dt) == passOver(w, order, pairsFrom(1, 2, Len(order)), dt)

listOrder == [k \in 1 .. NChildren |-> k]

\* ----------------------------------------------------------------- Engine
RECURSIVE aiAll(_, _, _)
\* the loop of fixedUpdate over the children from index i on: ai.update(dt, dist, false)
aiAll(w, i, dt) ==
  IF i > NChildren THEN w ELSE aiAll(aiUpdate(w, i, dt, FALSE), i + 1, dt)

\* Engine.fixedUpdate(dt): every ChildAI, then the interaction pass
fixedUpdate(w, dt) == interactionUpdate(aiAll(w, 1, dt), listOrder, dt)

\* ------------------------------------------------------------ the inputs
\* the coarse step of the component-level runs, in ticks (46 s); the Engine's own
\* step is PhysicsStep
CoarseStep == 2760
PhysicsStep == 1
DtSet == {0, PhysicsStep, CoarseStep}

Personality(sh, cu, en, cl, st) ==
  [shyness |-> Pct(sh), curiosity |-> Pct(cu), energy |-> Pct(en),
   clinginess |-> Pct(cl), stubbornness |-> Pct(st)]

Calm == Personality(30, 20, 50, 20, 30)
Wild == Personality(30, 90, 80, 20, 80)

PMood(h, b, f, t, m, c) == Mood(Pct(h), Pct(b), Pct(f), Pct(t), Pct(m), Pct(c))

Profile(age, personality, mood) == [age |-> age, personality |-> personality, mood |-> mood]

Rested == Profile("toddler", Calm, DefaultMood)
Tired == Profile("infant", Calm, PMood(50, 10, 85, 50, 10, 80))
InBand == Profile("toddler", Wild, PMood(60, 40, 40, 50, 10, 80))
Distressed == Profile("child", Calm, PMood(88, 60, 75, 18, 80, 45))
Player == Profile("child", Calm, PMood(20, 70, 30, 99, 70, 80))
Rascal == Profile("child", Wild, PMood(20, 70, 30, 50, 70, 100))
Spent == Profile("toddler", Calm, PMood(95, 20, 99, 10, 0, 0))
Hungry == Profile("toddler", Calm, PMood(75, 10, 30, 10, 10, 80))
Sulky == Profile("toddler", Wild, PMood(20, 10, 30, 18, 75, 80))
Fading == Profile("child", Calm, PMood(20, 10, 30, 21, 72, 80))
Mate == Profile("child", Calm, PMood(20, 60, 30, 50, 10, 80))
Hothead == Profile("child", Calm, [PMood(20, 60, 30, 50, 70, 80) EXCEPT !.mischief = @ - 30])
Viewer == Profile("toddler", Calm, [PMood(20, 32, 60, 50, 10, 80) EXCEPT !.fatigue = @ - Pct(1) \div 5])
TieAll == Profile("toddler", Personality(30, 60, 50, 0, 30), PMood(0, 0, 0, 0, 0, 100))
TieWatch == Profile("toddler", Calm, PMood(20, 57, 76, 50, 10, 80))
TieFollow == Profile("toddler", Personality(30, 100, 50, 100, 30), PMood(20, 0, 80, 100, 10, 80))
Shy == Profile("toddler", Personality(70, 20, 80, 20, 80), PMood(92, 20, 81, 10, 0, 50))
Lively == Profile("toddler", Personality(60, 20, 70, 20, 60), PMood(92, 20, 81, 10, 60, 50))
LivelyMild == Profile("toddler", Personality(60, 20, 70, 20, 60), PMood(92, 20, 81, 10, 0, 50))
Stubborn == Profile("toddler", Personality(30, 20, 50, 20, 75), PMood(92, 20, 81, 10, 0, 50))
Peckish == Profile("toddler", Calm, PMood(75, 60, 40, 50, 10, 80))

\* the one call the external collaborators make in a run (at most MaxExternal times)
Call(kind, child, arg) == [kind |-> kind, child |-> child, arg |-> arg]

\* a run: the profiles of the first two children, whether they are "near" each other,
\* "far" apart in one room or "split" over two rooms, and the collaborators' call;
\* further children are Rested
Scenarios ==
  { <<Rested, Tired, "near", Call("apply", 2, [fatigue |-> -Pct(60), hunger |-> Pct(40)])>>,
    <<Rested, InBand, "near", Call("apply", 1, [fatigue |-> Pct(65)])>>,
    <<Hungry, Rested, "near", Call("feed", 1, Pct(30))>>,
    <<Sulky, Tired, "far", Call("apply", 1, [trust |-> Pct(120)])>>,
    <<Spent, Player, "near", Call("comfort", 2, Pct(30))>>,
    <<Fading, Rested, "split", Call("carry", 1, 0)>>,
    <<Peckish, Tired, "far", Call("feed", 1, Pct(30))>>,
    <<Player, Player, "near", Call("play", 1, Pct(150))>>,
    <<Player, Rascal, "near", Call("move", 2, <<1, 2>>)>>,
    <<Distressed, Tired, "near", Call("trustDrop", 2, 0)>>,
    <<Tired, Distressed, "near", Call("contagiousCry", 2, 0)>>,
    <<Rascal, Tired, "split", Call("move", 1, <<1, 5>>)>>,
    <<Spent, Distressed, "near", Call("contagiousCry", 1, 0)>>,
    <<Mate, Hothead, "near", Call("apply", 2, [mischief |-> Pct(10)])>>,
    <<Mate, Tired, "split", Call("contagiousCry", 1, 0)>>,
    <<Hothead, Mate, "near", Call("contagiousCry", 1, 0)>>,
    <<Viewer, Rested, "far", Call("none", 0, 0)>>,
    <<TieAll, TieWatch, "far", Call("none", 0, 0)>>,
    <<TieFollow, Rested, "far", Call("none", 0, 0)>>,
    <<Shy, Lively, "split", Call("none", 0, 0)>>,
    <<Stubborn, LivelyMild, "split", Call("none", 0, 0)>>,
    <<Player, Player, "far", Call("none", 0, 0)>> }

\* new Child(profile, initialMood), placed by the Engine
NewChild(profile, room, position) ==
  [age |-> profile.age, personality |-> profile.personality, mood |-> profile.mood,
   currentRoom |-> room, position |-> position,
   isBeingCarried |-> FALSE, isSleeping |-> FALSE, isPlaying |-> FALSE]

NoLog(mood) ==
  [from |-> "none", held |-> {}, seen |-> mood, timer |-> 0, entered |-> FALSE,
   stayed |-> 0, since |-> 0, fired |-> FALSE,
   to |-> "none", ran |-> "none", sub |-> FALSE]

\* as newAIs, a child starting in Sleeping from fatigue 0.8 on
RECURSIVE newAIsFromThreshold(_, _)
newAIsFromThreshold(w, i) ==
  IF i > NChildren THEN w
  ELSE LET startState == IF w.ch[i].mood.fatigue >= Pct(80) THEN Sleeping ELSE Content
       IN  newAIsFromThreshold(transitionTo(w, i, startState), i + 1)

\* new ChildAI(child): the fields, then fsm.transitionTo(startState)
RECURSIVE newAIs(_, _)
newAIs(w, i) ==
  IF i > NChildren THEN w
  ELSE LET startState == IF w.ch[i].mood.fatigue > Pct(80) THEN Sleeping ELSE Content
       IN  newAIs(transitionTo(w, i, startState), i + 1)

\* the world of a run; the children after the second are made from `others`
NewWorldWith(sc, others) ==
  LET ch == [i \in Ids |->
               IF i = 1 THEN NewChild(sc[1], 0, 0)
               ELSE IF i = 2 THEN NewChild(sc[2], IF sc[3] = "split" THEN 1 ELSE 0,
                                           IF sc[3] = "far" THEN 5 ELSE 2)
               ELSE NewChild(others, 0, 1)]
      ai == [i \in Ids |-> [state |-> "none", currentAction |-> "sit_idle", actionTimer |-> 0,
                            tvIsOn |-> FALSE, nearestSibling |-> FALSE]]
  IN  newAIs(World(ch, ai, << >>, [i \in Ids |-> NoLog(ch[i].mood)]), 1)

NewWorld(sc) == NewWorldWith(sc, Rested)

NoPass == [valid |-> FALSE, pre |-> << >>, dt |-> 0, crier |-> 0]

NoMachine == [phase |-> "none"]

NoGenerate == [phase |-> "none"]

PureIdle ==
  /\ mv = DefaultMood
  /\ obs = [call |-> "none"]
  /\ rt = [phase |-> "none"]
  /\ sm = NoMachine
  /\ gen = NoGenerate

Init ==
  /\ \E sc \in Scenarios :
       LET w == NewWorld(sc)
       IN  /\ children = w.ch
           /\ ais = w.ai
           /\ emitted = w.ev
           /\ last = w.lg
           /\ script = sc[4]
  /\ ticks = 0
  /\ budget = MaxExternal
  /\ pass = NoPass
  /\ PureIdle

\* ------------------------------------------------------------ the actions
Now == World(children, ais, << >>, last)

Install(w) ==
  /\ children' = w.ch
  /\ ais' = w.ai
  /\ emitted' = w.ev
  /\ last' = w.lg

\* one Engine.fixedUpdate(dt)
FixedUpdate ==
  /\ ticks < MaxTicks
  /\ \E dt \in DtSet :
       LET pre == aiAll(Now, 1, dt)
       IN  /\ Install(interactionUpdate(pre, listOrder, dt))
           /\ pass' = [valid |-> TRUE, pre |-> pre.ch, dt |-> dt, crier |-> 0]
  /\ ticks' = ticks + 1
  /\ UNCHANGED <<budget, script, mv, obs, rt, sm, gen>>

External(kind, w) ==
  /\ script.kind = kind
  /\ budget > 0
  /\ budget' = budget - 1
  /\ Install(w)
  /\ pass' = IF kind = "contagiousCry"
              THEN [NoPass EXCEPT !.pre = children, !.crier = script.child]
              ELSE NoPass
  /\ UNCHANGED <<ticks, script, mv, obs, rt, sm, gen>>

\* a collaborator feeds, plays with or comforts a child, or applies a mood change
Feed == External("feed", [Now EXCEPT !.ch[script.child].mood = feed(@, script.arg)])

PlayWith == External("play", [Now EXCEPT !.ch[script.child].mood = play(@, script.arg)])

Comfort == External("comfort", [Now EXCEPT !.ch[script.child].mood = comfortChild(@, script.arg)])

Apply == External("apply", [Now EXCEPT !.ch[script.child].mood = apply(@, script.arg)])

\* HazardSystem.resolveHazard on a failed critical hazard: emit('child.trustDrop', childId, 0)
TrustDrop ==
  External("trustDrop",
           onTrustDrop(Emit(Now, <<"child.trustDrop", script.child, 0>>), script.child, 0))

\* a 'child.contagiousCry' signal on the bus
ContagiousCry ==
  External("contagiousCry",
           onContagiousCry(Emit(Now, <<"child.contagiousCry", script.child>>), script.child))

\* the carrying collaborator picks a child up or puts it down
Carry == External("carry", [Now EXCEPT !.ch[script.child].isBeingCarried = ~@])

\* movement: a child that can walk, is awake and not carried changes place
Move ==
  /\ script.kind = "move"
  /\ LET c == children[script.child]
     IN  /\ c.age # "infant" /\ ~c.isSleeping /\ ~c.isBeingCarried
         /\ script.arg # <<c.currentRoom, c.position>>
  /\ External("move", [Now EXCEPT !.ch[script.child].currentRoom = script.arg[1],
                                  !.ch[script.child].position = script.arg[2]])

Next ==
  \/ FixedUpdate
  \/ Feed
  \/ PlayWith
  \/ Comfort
  \/ Apply
  \/ TrustDrop
  \/ ContagiousCry
  \/ Carry
  \/ Move

Spec == Init /\ [][Next]_vars

\* --------------------------------------- the Engine alone, at its fixed step
QuickTemper == Profile("toddler", Calm, PMood(92, 20, 81, 10, 0, 50))

\* a child about to turn hungry while it plays
Playful == Profile("toddler", Calm, [PMood(70, 60, 30, 50, 10, 80) EXCEPT !.hunger = @ - 40])

\* a hungry child worn out to between the two fatigue guards of Tantrum
Frantic == Profile("toddler", Calm, PMood(95, 20, 96, 10, 0, 50))

\* a child that tires while content, and one as tired as a child can be and start awake
Weary == Profile("toddler", Calm, PMood(20, 10, 69, 50, 10, 80))
Worn == Profile("infant", Calm, PMood(20, 10, 80, 50, 10, 80))

LongScenarios ==
  { <<QuickTemper, Sulky, "split", Call("none", 0, 0)>>,
    <<Sulky, Rested, "near", Call("none", 0, 0)>>,
    <<Peckish, Rested, "split", Call("none", 0, 0)>>,
    <<Playful, Rested, "split", Call("none", 0, 0)>>,
    <<Frantic, Rested, "split", Call("none", 0, 0)>>,
    <<Weary, Worn, "split", Call("none", 0, 0)>> }

\* long enough for an Upset timeout followed by a Tantrum timeout
Horizon == Sec(UpsetTimeout) + Sec(TantrumTimeout) + 20

InitLong ==
  /\ \E sc \in LongScenarios :
       LET w == NewWorld(sc)
       IN  /\ children = w.ch
           /\ ais = w.ai
           /\ emitted = w.ev
           /\ last = w.lg
           /\ script = sc[4]
  /\ ticks = 0
  /\ budget = 0
  /\ pass = NoPass
  /\ PureIdle

\* the loop of Engine.loop: fixedUpdate(PHYSICS_STEP)
DriverTick ==
  /\ ticks < Horizon
  /\ LET pre == aiAll(Now, 1, PhysicsStep)
     IN  /\ Install(interactionUpdate(pre, listOrder, PhysicsStep))
         /\ pass' = [valid |-> TRUE, pre |-> pre.ch, dt |-> PhysicsStep, crier |-> 0]
  /\ ticks' = ticks + 1
  /\ UNCHANGED <<budget, script, mv, obs, rt, sm, gen>>

NextLong == DriverTick

SpecLong == InitLong /\ [][NextLong]_vars

\* ------------------------------------------- the fixed-step driver, without end
\* children close to where their moods end up without care: the run soon repeats itself
Nearly == Profile("infant", Calm, PMood(96, 100, 80, 0, 0, 0))
Drained == Profile("toddler", Calm, PMood(100, 100, 99, 0, 0, 0))

\* a child left alone since its last meal: awake, its hunger still below the wake-up guard
Neglected == Profile("child", Calm, PMood(78, 100, 80, 0, 0, 0))

LiveScenarios ==
  { <<Nearly, Drained, "split", Call("none", 0, 0)>>,
    <<Neglected, Drained, "near", Call("none", 0, 0)>> }

InitLive ==
  /\ \E sc \in LiveScenarios :
       LET w == NewWorldWith(sc, Drained)
       IN  /\ children = w.ch
           /\ ais = w.ai
           /\ emitted = w.ev
           /\ last = w.lg
           /\ script = sc[4]
  /\ ticks = 0
  /\ budget = 0
  /\ pass = NoPass
  /\ PureIdle

Least(a, b) == IF a <= b THEN a ELSE b

\* the tick counter of the endless run, kept as its parity
Beat == ticks' = 1 - ticks

\* fixedUpdate(PHYSICS_STEP), again and again; the counters of the log stop at Horizon
LiveTick ==
  /\ LET pre == aiAll(Now, 1, PhysicsStep)
         done == interactionUpdate(pre, listOrder, PhysicsStep)
     IN  /\ children' = done.ch
         /\ ais' = done.ai
         /\ emitted' = done.ev
         /\ last' = [i \in Ids |-> [done.lg[i] EXCEPT !.since = Least(@, Horizon),
                                                      !.stayed = Least(@, Horizon)]]
         /\ pass' = [valid |-> TRUE, pre |-> pre.ch, dt |-> PhysicsStep, crier |-> 0]
  /\ Beat
  /\ UNCHANGED <<budget, script, mv, obs, rt, sm, gen>>

NextLive == LiveTick

\* the Engine's loop runs fixedUpdate for as long as the session lasts: every step is a
\* LiveTick, and the tick counter keeps advancing
SpecLive == InitLive /\ [][NextLive]_vars /\ WF_ticks(Beat)

\* ------------------------------------------------ a MoodVector on its own
DriverIdle ==
  /\ LET w == NewWorld(<<Rested, Rested, "near", Call("none", 0, 0)>>)
     IN  /\ children = w.ch
         /\ ais = w.ai
         /\ emitted = w.ev
         /\ last = w.lg
  /\ script = Call("none", 0, 0)
  /\ ticks = 0
  /\ budget = 0
  /\ pass = NoPass

MoodInputs ==
  { DefaultMood, PMood(0, 0, 0, 0, 0, 0), PMood(100, 100, 100, 100, 100, 100),
    PMood(50, 50, 50, 50, 50, 50), PMood(10, 60, 60, 50, 0, 40),
    PMood(10, 20, 60, 50, 0, 40) }

MoodSteps == {0, Sec(1) \div 10, Sec(1), CoarseStep}

MoodChanges == { [mischief |-> Pct(40)], [hunger |-> Pct(200), comfort |-> -Pct(200)] }

InitMood ==
  /\ mv \in MoodInputs
  /\ obs = [call |-> "new", steps |-> 0, happiness |-> 0, urgentNeed |-> "none"]
  /\ rt = [phase |-> "none"]
  /\ sm = NoMachine
  /\ gen = NoGenerate
  /\ DriverIdle

Called(name, values) ==
  /\ obs.steps < MaxMoodSteps
  /\ mv' = values
  /\ obs' = [obs EXCEPT !.call = name, !.steps = @ + 1]
  /\ UNCHANGED <<driverVars, rt, sm, gen>>

MvUpdate == \E dt \in MoodSteps, isSleeping, isPlaying, isBeingHeld \in BOOLEAN :
  Called("update", update(mv, dt, isSleeping, isPlaying, isBeingHeld))

MvApply == \E changes \in MoodChanges : Called("apply", apply(mv, changes))

MvFeed == \E amount \in {Pct(30)} : Called("feed", feed(mv, amount))

MvPlay == \E amount \in {Pct(30)} : Called("play", play(mv, amount))

MvComfort == \E amount \in {Pct(30)} : Called("comfortChild", comfortChild(mv, amount))

\* the getters happiness and urgentNeed are read
MvRead ==
  /\ obs.call # "read"
  /\ obs' = [obs EXCEPT !.call = "read", !.happiness = happiness(mv),
                        !.urgentNeed = urgentNeed(mv)]
  /\ UNCHANGED <<driverVars, mv, rt, sm, gen>>

NextMood ==
  \/ MvUpdate
  \/ MvApply
  \/ MvFeed
  \/ MvPlay
  \/ MvComfort
  \/ MvRead

SpecMood == InitMood /\ [][NextMood]_vars

\* --------------------------- one second in one step and in ten steps of 0.1 s
RateStarts ==
  { DefaultMood, PMood(20, 50, 30, 50, 10, 80), PMood(20, 60, 70, 50, 100, 80),
    PMood(100, 0, 100, 0, 0, 0),
    [DefaultMood EXCEPT !.boredom = Pct(50) - Pct(1) \div 5] }

InitRate ==
  /\ \E start \in RateStarts, isSleeping, isPlaying, isBeingHeld \in BOOLEAN :
       rt = [phase |-> "run", start |-> start, isSleeping |-> isSleeping,
             isPlaying |-> isPlaying, isBeingHeld |-> isBeingHeld,
             one |-> start, oneDone |-> FALSE, ten |-> start, k |-> 0]
  /\ mv = DefaultMood
  /\ obs = [call |-> "none"]
  /\ sm = NoMachine
  /\ gen = NoGenerate
  /\ DriverIdle

\* update(1.0, ...) on the first copy
RateOneStep ==
  /\ ~rt.oneDone
  /\ rt' = [rt EXCEPT !.oneDone = TRUE,
                      !.one = update(rt.start, Sec(1), rt.isSleeping, rt.isPlaying,
                                     rt.isBeingHeld)]
  /\ UNCHANGED <<driverVars, mv, obs, sm, gen>>

\* update(0.1, ...) on the second copy, ten times
RateTenthStep ==
  /\ rt.k < 10
  /\ rt' = [rt EXCEPT !.k = @ + 1,
                      !.ten = update(rt.ten, Sec(1) \div 10, rt.isSleeping, rt.isPlaying,
                                     rt.isBeingHeld)]
  /\ UNCHANGED <<driverVars, mv, obs, sm, gen>>

NextRate ==
  \/ RateOneStep
  \/ RateTenthStep

SpecRate == InitRate /\ [][NextRate]_vars

\* ------------------------------------------------ a StateMachine on its own
\* The machine under test: three states that can be registered, each with the three
\* hooks, and transitions guarded by flags of the context; "ghost" is never registered.
Registrable == {"idle", "busy", "done"}
StateNames == Registrable \cup {"ghost"}
Flags == {"go", "fault"}

machineTransitions(name) ==
  CASE name = "idle" -> << Tr("busy", "go", 1), Tr("ghost", "fault", 2) >>
    [] name = "busy" -> << Tr("done", "go", 1), Tr("idle", "fault", 2) >>
    [] OTHER -> << >>

Said(m, what) == [m EXCEPT !.out = Append(@, what)]

\* StateMachine.addState(state)
addState(m, name) == [m EXCEPT !.states = @ \cup {name}]

\* as machineTransitionTo, the current state left before the name is looked up
machineTransitionToExitFirst(m, stateName) ==
  LET exited == IF m.current # "none" THEN Said(m, <<"onExit", m.current>>) ELSE m
  IN  IF stateName \notin m.states
      THEN Said(exited, <<"console.warn", stateName>>)
      ELSE Said([exited EXCEPT !.current = stateName], <<"onEnter", stateName>>)

\* StateMachine.transitionTo(stateName), for any machine
machineTransitionTo(m, stateName) ==
  IF stateName \notin m.states
  THEN Said(m, <<"console.warn", stateName>>)
  ELSE LET exited == IF m.current # "none" THEN Said(m, <<"onExit", m.current>>) ELSE m
       IN  Said([exited EXCEPT !.current = stateName], <<"onEnter", stateName>>)

\* StateMachine.update(dt), for any machine
machineUpdate(m) ==
  LET ts == sorted(machineTransitions(m.current))
      firing == {k \in 1 .. Len(ts) : ts[k].cond \in m.flags}
  IN  IF m.current = "none" THEN m
      ELSE IF firing # {}
      THEN LET k == CHOOSE k \in firing : \A j \in firing : k <= j
           IN  machineTransitionTo([m EXCEPT !.asked = ts[k].to], ts[k].to)
      ELSE Said(m, <<"onUpdate", m.current>>)

\* StateMachine.exit()
machineExit(m) ==
  IF m.current # "none"
  THEN [Said(m, <<"onExit", m.current>>) EXCEPT !.current = "none"]
  ELSE m

InitMachine ==
  /\ sm = [phase |-> "machine", states |-> {"idle"}, current |-> "none", flags |-> {},
           call |-> "new", asked |-> "none", was |-> "none", out |-> << >>,
           thrown |-> FALSE, calls |-> 0]
  /\ mv = DefaultMood
  /\ obs = [call |-> "none"]
  /\ rt = [phase |-> "none"]
  /\ gen = NoGenerate
  /\ DriverIdle

\* a call on the machine: `out` and `asked` describe the last call only; after a throw
\* the caller makes no further call
MachineCall(name, asked, result) ==
  /\ sm.calls < MaxMachineCalls
  /\ ~sm.thrown
  /\ sm' = [result EXCEPT !.call = name, !.calls = @ + 1, !.was = sm.current]
  /\ UNCHANGED <<driverVars, mv, obs, rt, gen>>

Fresh(asked) == [sm EXCEPT !.out = << >>, !.asked = asked]

SmAddState == \E name \in Registrable \ sm.states :
  MachineCall("addState", "none", addState(Fresh("none"), name))

SmTransitionTo == \E name \in StateNames :
  MachineCall("transitionTo", name, machineTransitionTo(Fresh(name), name))

SmSetContext == \E flags \in SUBSET Flags :
  /\ flags # sm.flags
  /\ MachineCall("context", "none", [Fresh("none") EXCEPT !.flags = flags])

SmUpdate == MachineCall("update", "none", machineUpdate(Fresh("none")))

SmExit == MachineCall("exit", "none", machineExit(Fresh("none")))

NextMachine ==
  \/ SmAddState
  \/ SmTransitionTo
  \/ SmSetContext
  \/ SmUpdate
  \/ SmExit

SpecMachine == InitMachine /\ [][NextMachine]_vars

\* ------------------------------------------- SeededRandom and Child.generate
\* a 32-bit integer is kept as <<its high 16 bits, its low 16 bits>>; an intermediate
\* value that is used more than once is bound once, as the member of a one-element set
Half == 65536

RECURSIVE xor16(_, _, _)
xor16(a, b, n) ==
  IF n = 0 THEN 0 ELSE ((a + b) % 2) + 2 * xor16(a \div 2, b \div 2, n - 1)

RECURSIVE or16(_, _, _)
or16(a, b, n) ==
  IF n = 0 THEN 0
  ELSE (IF a % 2 = 1 \/ b % 2 = 1 THEN 1 ELSE 0) + 2 * or16(a \div 2, b \div 2, n - 1)

\* x ^ y
xor(x, y) ==
  CHOOSE r \in { <<xor16(a[1], b[1], 16), xor16(a[2], b[2], 16)>> : a \in {x}, b \in {y} } : TRUE

\* c | x for a constant c below 2^16
orLow(c, x) == CHOOSE r \in { <<a[1], or16(c, a[2], 16)>> : a \in {x} } : TRUE

\* (x + y) | 0
add(x, y) ==
  CHOOSE r \in { <<(a[1] + b[1] + ((a[2] + b[2]) \div Half)) % Half, (a[2] + b[2]) % Half>> :
                 a \in {x}, b \in {y} } : TRUE

\* x >>> k for 0 < k < 16
shr(x, k) ==
  CHOOSE r \in { <<a[1] \div (2^k), (a[1] % (2^k)) * (2^(16 - k)) + (a[2] \div (2^k))>> :
                 a \in {x} } : TRUE

\* the product of two 16-bit numbers, as a 32-bit integer
mul16(a, b) ==
  CHOOSE p \in { add(<<q \div 256, (q % 256) * 256>>, <<r \div Half, r % Half>>) :
                 q \in {(a \div 256) * b}, r \in {(a % 256) * b} } : TRUE

\* Math.imul(x, y): the low 32 bits of the product
imul(x, y) ==
  CHOOSE r \in { <<(p[1] + mul16(a[1], b[2])[2] + mul16(a[2], b[1])[2]) % Half, p[2]>> :
                 a \in {x}, b \in {y}, p \in {mul16(x[2], y[2])} } : TRUE

\* SeededRandom.hashString: hash = ((hash << 5) - hash + char) | 0 over the characters
RECURSIVE hashFrom(_, _, _)
hashFrom(hash, str, i) ==
  IF i > Len(str) THEN hash
  ELSE CHOOSE r \in { hashFrom(h, str, i + 1) :
                      h \in {add(imul(hash, <<0, 31>>), <<0, str[i]>>)} } : TRUE

hashString(str) == hashFrom(<<0, 0>>, str, 1)

\* SeededRandom.next(): the new state and the 32-bit numerator of the returned float
next(state) ==
  CHOOSE r \in
    { [state |-> m[1], value |-> xor(m[2], shr(m[2], 14))] :
        m \in { <<st[1], xor(add(st[2], imul(xor(st[2], shr(st[2], 7)), orLow(61, st[2]))), st[2])>> :
                  st \in { <<s, imul(xor(s, shr(s, 15)), orLow(1, s))>> :
                             s \in {add(state, <<27947, 31221>>)} } } } : TRUE    \* 0x6d2b79f5

\* new SeededRandom(seed): the hash of the string, warmed up with ten calls of next()
RECURSIVE warmUp(_, _)
warmUp(state, n) ==
  IF n = 0 THEN state
  ELSE CHOOSE r \in { warmUp(d.state, n - 1) : d \in {next(state)} } : TRUE

SeededRandom(seed) == warmUp(hashString(seed), 10)

\* the values of the next n calls of next(), in order
RECURSIVE draws(_, _)
draws(state, n) ==
  IF n = 0 THEN << >>
  ELSE CHOOSE r \in { <<d.value>> \o draws(d.state, n - 1) : d \in {next(state)} } : TRUE

\* pick(array) and nextInt(0, n - 1): Math.floor(next() * n)
pick(value, n) == (value[1] * n + ((value[2] * n) \div Half)) \div Half

\* nextFloat(min, max) with min and max in hundredths: next() * (max - min) + min, on
\* the grid of the mood scalars, from the 16 high bits of next()
nextFloat(value, min, max) ==
  Pct(min) + (((value[1] * (max - min)) \div 64) * (One \div 100)) \div 1024

\* calls of next() a model run of generate may make after the warm-up
DrawLimit == 32

\* the decimal digits of a child index below 100, as character codes
digits(index) ==
  IF index < 10 THEN <<48 + index>> ELSE <<48 + (index \div 10), 48 + (index % 10)>>

\* as seedString, numbered by the calls made so far instead of by the index
seedStringCounting(seed, index) ==
  seed \o <<95, 99, 104, 105, 108, 100, 95>> \o digits(gen.calls)

\* `${seed}_child_${index}`
seedString(seed, index) == seed \o <<95, 99, 104, 105, 108, 100, 95>> \o digits(index)

AgeList == <<"infant", "toddler", "child">>

\* Child.generate(seed, index, ageGroup), ageGroup "none" when the argument is left
\* out: the draws in the order the code makes them
generate(seed, index, ageGroup) ==
  CHOOSE child \in
    { LET o == IF ageGroup = "none" THEN 1 ELSE 0
          age == IF ageGroup = "none" THEN AgeList[pick(ds[1], 3) + 1] ELSE ageGroup
          \* name o+1, skinTone o+2, hairColor o+3, hairStyle o+4, clothingPalette o+5,
          \* height o+6
          personality == [shyness |-> nextFloat(ds[o + 7], 0, 100),
                          curiosity |-> nextFloat(ds[o + 8], 0, 100),
                          energy |-> nextFloat(ds[o + 9], 30, 100),
                          clinginess |-> nextFloat(ds[o + 10], 0, 100),
                          stubbornness |-> nextFloat(ds[o + 11], 0, 100)]
          favoriteFood == pick(ds[o + 12], 7)
          hatedFood == pick(ds[o + 13], 7)
          \* favoriteToy o+14, fearOf o+15; then hatedFood is picked again while it
          \* equals favoriteFood
          again == IF hatedFood # favoriteFood THEN 0
                   ELSE CHOOSE e \in 1 .. (DrawLimit - o - 21) :
                          /\ pick(ds[o + 15 + e], 7) # favoriteFood
                          /\ \A d \in 1 .. (e - 1) : pick(ds[o + 15 + d], 7) = favoriteFood
          first == o + 15 + again
          initialMood == Mood(nextFloat(ds[first + 1], 10, 40),
                              nextFloat(ds[first + 2], 0, 30),
                              IF age = "infant" THEN nextFloat(ds[first + 3], 40, 70)
                              ELSE nextFloat(ds[first + 3], 10, 30),
                              nextFloat(ds[first + 4], 30, 60),
                              nextFloat(ds[first + 5], 0, 20),
                              nextFloat(ds[first + 6], 60, 90))
      IN  NewChild([age |-> age, personality |-> personality, mood |-> initialMood], 0, 0) :
      ds \in {draws(SeededRandom(seedString(seed, index)), DrawLimit)} } : TRUE

\* the regime new ChildAI(child) starts the child in
startState(child) == IF child.mood.fatigue > Pct(80) THEN Sleeping ELSE Content

\* session seeds, as character codes: "a", "ab"
Seeds == { <<97>>, <<97, 98>> }

Indices == {0, 1}

AgeArguments == {"none", "child"}

MaxGenerateCalls == 3

\* what generate returns for each of these arguments
generated ==
  [seed \in Seeds, index \in Indices, ageGroup \in AgeArguments |->
     generate(seed, index, ageGroup)]

InitGenerate ==
  /\ gen = [phase |-> "generate", calls |-> 0, made |-> {}, newest |-> << >>]
  /\ mv = DefaultMood
  /\ obs = [call |-> "none"]
  /\ rt = [phase |-> "none"]
  /\ sm = NoMachine
  /\ DriverIdle

\* one call of Child.generate followed by new ChildAI(child); `made` keeps every call
\* with what it returned
Generate ==
  /\ gen.calls < MaxGenerateCalls
  /\ \E seed \in Seeds, index \in Indices, ageGroup \in AgeArguments :
       LET child == generated[seed, index, ageGroup]
           call == [seed |-> seed, index |-> index, ageGroup |-> ageGroup,
                    child |-> child, state |-> startState(child)]
       IN  gen' = [gen EXCEPT !.calls = @ + 1, !.made = @ \cup {call}, !.newest = call]
  /\ UNCHANGED <<driverVars, mv, obs, rt, sm>>

NextGenerate == Generate

SpecGenerate == InitGenerate /\ [][NextGenerate]_vars

\* ------------------------------------------------------------ properties
moods(ch) == [i \in DOMAIN ch |-> ch[i].mood]

\* C1: after any sequence of mood mutations (update, apply, feed, play, comfortChild,
\* the interaction pass, the contagious-cry and the trust-drop listeners) every one of
\* the six scalars of every child is within [0,1].
C1_MoodsInRange == \A i \in Ids : InRange(children[i].mood)

\* a collaborator's call and a fixed update have happened, and a scalar sits on a clamp
C1_Witness ==
  /\ ticks > 0
  /\ budget < MaxExternal
  /\ \E i \in Ids : children[i].mood.trust = One /\ children[i].mood.comfort < One

PriorityTwoTarget(state) ==
  CASE state = Sleeping -> Needy
    [] state = Content -> Sleeping
    [] state = Needy -> Upset
    [] state = Upset -> Tantrum
    [] state = Tantrum -> Sleeping

BothHeld(l) == Cardinality(l.held) = 2

\* C3: the transitions of the current regime are tried in descending priority and the
\* first true guard fires: when any guard holds a transition fires, when both hold the
\* priority-2 target is entered (Sleeping with fatigue < 0.3 and hunger > 0.8 goes to
\* Needy, Content goes to Sleeping, Needy to Upset, Upset to Tantrum, Tantrum to Sleeping),
\* and when only one holds its own target is entered.
C3_PriorityOrder ==
  \A i \in Ids :
    LET l == last[i]
    IN  l.from # "none" =>
          /\ l.fired <=> l.held # {}
          /\ l.fired => l.to \in l.held
          /\ BothHeld(l) => l.to = PriorityTwoTarget(l.from)
          /\ (l.from = Sleeping /\ l.seen.fatigue < Pct(30) /\ l.seen.hunger > Pct(80))
               => l.to = Needy
          /\ (l.from = Tantrum /\ l.seen.fatigue > Pct(98)) => l.to = Sleeping

\* a sleeping child with fatigue < 0.3 and hunger > 0.8 was sent to Needy
C3_Witness ==
  \E i \in Ids :
    /\ last[i].from = Sleeping /\ BothHeld(last[i])
    /\ last[i].seen.fatigue < Pct(30) /\ last[i].seen.hunger > Pct(80)
    /\ last[i].to = Needy /\ ais[i].state = Needy

C3_BothInContent == \E i \in Ids : last[i].from = Content /\ BothHeld(last[i])
C3_BothInNeedy == \E i \in Ids : last[i].from = Needy /\ BothHeld(last[i])
C3_BothInUpset == \E i \in Ids : last[i].from = Upset /\ BothHeld(last[i])
C3_BothInTantrum == \E i \in Ids : last[i].from = Tantrum /\ BothHeld(last[i])

\* the urgent-need metric is between the two thresholds
InHysteresisBand(mood) == hasUrgentNeed(mood, Pct(50)) /\ ~hasUrgentNeed(mood, Pct(70))

\* C4 as stated: a child whose urgent-need metric is between 0.5 and 0.7 when its
\* transitions are evaluated stays in Needy if it is in Needy and in Content if it is
\* in Content.
C4_StaysInBand ==
  \A i \in Ids :
    (last[i].from \in {Needy, Content} /\ InHysteresisBand(last[i].seen))
      => (~last[i].fired /\ last[i].to = last[i].from)

\* C4 as amended: with the metric between 0.5 and 0.7, a child in Content stays in
\* Content, and a child in Needy never goes back to Content: it stays in Needy unless its
\* trust is below 0.2, which sends it to Upset.
C4_NoFlapInBand ==
  \A i \in Ids :
    InHysteresisBand(last[i].seen) =>
      /\ last[i].from = Content => (~last[i].fired /\ last[i].to = Content)
      /\ last[i].from = Needy =>
           /\ last[i].to \in {Needy, Upset}
           /\ last[i].to = Upset <=> last[i].seen.trust < Pct(20)

\* a child in Needy, its metric inside the band, was kept in Needy by a fixed update
C4_Witness ==
  \E i \in Ids :
    /\ last[i].from = Needy /\ InHysteresisBand(last[i].seen)
    /\ ~last[i].fired /\ ais[i].state = Needy

\* --- the reference pass: every pair's deltas against the children as the pass found
\* them, summed per child and scalar, applied once after the scan
near(ch, i, j) ==
  /\ ch[i].currentRoom = ch[j].currentRoom
  /\ distanceTo(ch[i].position, ch[j].position) <= ProximityRadius

D(child, key, delta) == [child |-> child, key |-> key, delta |-> delta]

pairDeltas(ch, i, j, dt) ==
  LET a == ch[i]
      b == ch[j]
      sharing ==
        IF a.isPlaying /\ b.isPlaying
        THEN IF a.mood.mischief > Pct(70) \/ b.mood.mischief > Pct(70)
             THEN << D(i, "comfort", -(fightComfortRate * dt)),
                     D(j, "comfort", -(fightComfortRate * dt)) >>
             ELSE << D(i, "boredom", -(coopPlayRate * dt)), D(i, "trust", Pct(3)),
                     D(i, "mischief", -Pct(2)),
                     D(j, "boredom", -(coopPlayRate * dt)), D(j, "trust", Pct(3)),
                     D(j, "mischief", -Pct(2)) >>
        ELSE << >>
      bullying ==
        IF a.age = "child" /\ b.age # "child" /\ a.mood.mischief > Pct(70)
        THEN << D(j, "comfort", -(bullyComfortRate * dt)), D(j, "trust", -(bullyTrustRate * dt)) >>
        ELSE << >>
  IN  IF near(ch, i, j) THEN sharing \o bullying ELSE << >>

RECURSIVE allDeltas(_, _, _, _)
allDeltas(ch, order, ps, dt) ==
  IF ps = << >> THEN << >>
  ELSE pairDeltas(ch, order[Head(ps)[1]], order[Head(ps)[2]], dt)
         \o allDeltas(ch, order, Tail(ps), dt)

RECURSIVE sumFor(_, _, _)
sumFor(ds, child, key) ==
  IF ds = << >> THEN 0
  ELSE (IF Head(ds).child = child /\ Head(ds).key = key THEN Head(ds).delta ELSE 0)
         + sumFor(Tail(ds), child, key)

accumulatedMoods(ch, order, dt) ==
  LET ds == allDeltas(ch, order, pairsFrom(1, 2, Len(order)), dt)
  IN  [i \in DOMAIN ch |->
         [k \in MoodKeys |-> clamp(ch[i].mood[k] + sumFor(ds, i, k), 0, One)]]

reversedOrder == [k \in 1 .. NChildren |-> NChildren + 1 - k]

passMoods(ch, order, dt) ==
  moods(interactionUpdate(World(ch, ais, << >>, last), order, dt).ch)

\* C7: the interaction pass is order-independent: the moods after
\* ChildInteraction.update(dt) are those of accumulating every pair's deltas against the
\* pre-pass state and applying them once, and they do not depend on the order of the
\* children in the list.
C7_OrderIndependent ==
  pass.valid =>
    /\ moods(children) = accumulatedMoods(pass.pre, listOrder, pass.dt)
    /\ moods(children) = passMoods(pass.pre, reversedOrder, pass.dt)

\* C8: for every pair of children near each other of which exactly one is a 'child'
\* and that one's mischief is above 0.7, the other loses comfort and trust in the
\* pass (dt > 0), whichever of the two comes first in the list.
C8_BullyingEitherOrder ==
  (pass.valid /\ pass.dt > 0) =>
    \A i, j \in Ids :
      ( /\ i # j
        /\ near(pass.pre, i, j)
        /\ pass.pre[i].age = "child" /\ pass.pre[j].age # "child"
        /\ pass.pre[i].mood.mischief > Pct(70)
        /\ pass.pre[j].mood.comfort > 0 /\ pass.pre[j].mood.trust > 0 )
      => /\ children[j].mood.comfort < pass.pre[j].mood.comfort
         /\ children[j].mood.trust < pass.pre[j].mood.trust

\* the bully is listed first: the victim loses comfort and trust
C8_BulliedWhenListedFirst ==
  /\ pass.valid /\ pass.dt > 0
  /\ \E i, j \in Ids :
       /\ i < j /\ near(pass.pre, i, j)
       /\ pass.pre[i].age = "child" /\ pass.pre[j].age # "child"
       /\ pass.pre[i].mood.mischief > Pct(70)
       /\ children[j].mood.comfort < pass.pre[j].mood.comfort
       /\ children[j].mood.trust < pass.pre[j].mood.trust

Interior(ms) == \A i \in DOMAIN ms : \A k \in MoodKeys : ms[i][k] > 0 /\ ms[i][k] < One

\* C9: every mood delta of the pairwise rules is proportional to elapsed time: a pass
\* with dt = 0 changes no scalar and, when no clamp is hit, one pass with dt gives the
\* moods of two consecutive passes with dt/2.
C9_Proportional ==
  pass.valid =>
    /\ pass.dt = 0 => moods(children) = moods(pass.pre)
    /\ LET half == pass.dt \div 2
           once == interactionUpdate(World(pass.pre, ais, << >>, last), listOrder, half).ch
           twice == passMoods(once, listOrder, half)
       IN  (2 * half = pass.dt /\ Interior(moods(children)) /\ Interior(moods(once))
              /\ Interior(twice))
             => twice = moods(children)

\* the proportional rules alone (fighting, bullying) do scale with dt
C9_FightBullyProportional ==
  pass.valid =>
    \A i \in Ids :
      children[i].mood.comfort = clamp(pass.pre[i].mood.comfort
          + sumFor(allDeltas(pass.pre, listOrder, pairsFrom(1, 2, NChildren), pass.dt),
                   i, "comfort"), 0, One)

ExampleVector == [mv EXCEPT !.mischief = 0] = [DefaultMood EXCEPT !.mischief = 0]

WeightedSum ==
  /\ obs.happiness = 25 * (One - mv.hunger) + 20 * (One - mv.boredom)
                       + 15 * (One - mv.fatigue) + 20 * mv.trust + 20 * mv.comfort
  /\ \A m \in {0, Pct(10), Pct(50), One} :
       happiness([mv EXCEPT !.mischief = m]) = obs.happiness

C6_ExampleIs0795 ==
  obs.call = "read" =>
    /\ WeightedSum
    /\ ExampleVector => 10 * obs.happiness = 795 * One

\* C6: wellbeing is that weighted sum, whatever the mischief, and for the example
\* vector it is 0.745 (0.20 + 0.18 + 0.105 + 0.10 + 0.16).
C6_Wellbeing ==
  obs.call = "read" =>
    /\ WeightedSum
    /\ ExampleVector => 10 * obs.happiness = 745 * One

\* the example vector, its mischief raised from 0.1 to 0.5, has been read
C6_Witness ==
  /\ obs.call = "read"
  /\ mv = [DefaultMood EXCEPT !.mischief = Pct(50)]
  /\ 10 * obs.happiness = 745 * One

\* C10: from any starting vector and with the flags fixed, one update of 1.0 s gives
\* the six scalars that ten updates of 0.1 s give.
C10_TickRateIndependent ==
  (rt.phase = "run" /\ rt.oneDone /\ rt.k = 10) => rt.one = rt.ten

\* no child outside the pair is playing or is a bully: the pass changes the pair's
\* moods by the pair's own rules only
PairAlone(i, j) ==
  \A k \in Ids \ {i, j} :
    /\ ~pass.pre[k].isPlaying
    /\ ~(pass.pre[k].age = "child" /\ pass.pre[k].mood.mischief > Pct(70))

Lost(before, after) == after < before \/ (before = 0 /\ after = 0)

PlayingPair(i, j) ==
  /\ i < j /\ near(pass.pre, i, j)
  /\ pass.pre[i].isPlaying /\ pass.pre[j].isPlaying

\* C11: a near pair of playing children fights when either one's mischief is above 0.7
\* (both lose comfort, neither gets the cooperative boredom or mischief reduction) and
\* cooperates otherwise (both lose boredom and mischief, neither loses comfort).
C11_FightOrCooperate ==
  (pass.valid /\ pass.dt > 0) =>
    \A i, j \in Ids :
      (PlayingPair(i, j) /\ PairAlone(i, j)) =>
        \A k \in {i, j} :
          LET before == pass.pre[k].mood
              after == children[k].mood
          IN  IF pass.pre[i].mood.mischief > Pct(70) \/ pass.pre[j].mood.mischief > Pct(70)
              THEN /\ Lost(before.comfort, after.comfort)
                   /\ after.boredom = before.boredom
                   /\ after.mischief = before.mischief
                   /\ after.trust <= before.trust
              ELSE /\ Lost(before.boredom, after.boredom)
                   /\ Lost(before.mischief, after.mischief)
                   /\ after.comfort = before.comfort

\* two playing 'child' children, the second one's mischief above 0.7 and the first
\* one's not, have both lost comfort in a pass
C11_Witness ==
  /\ pass.valid /\ pass.dt > 0
  /\ \E i, j \in Ids :
       /\ PlayingPair(i, j) /\ PairAlone(i, j)
       /\ pass.pre[i].age = "child" /\ pass.pre[j].age = "child"
       /\ pass.pre[i].mood.mischief <= Pct(70) /\ pass.pre[j].mood.mischief > Pct(70)
       /\ children[i].mood.comfort < pass.pre[i].mood.comfort
       /\ children[j].mood.comfort < pass.pre[j].mood.comfort

\* a playing pair has cooperated: boredom and mischief down for both
C11_Cooperated ==
  /\ pass.valid /\ pass.dt > 0
  /\ \E i, j \in Ids :
       /\ PlayingPair(i, j) /\ PairAlone(i, j)
       /\ pass.pre[i].mood.mischief <= Pct(70) /\ pass.pre[j].mood.mischief <= Pct(70)
       /\ children[i].mood.boredom < pass.pre[i].mood.boredom
       /\ children[j].mood.mischief < pass.pre[j].mood.mischief

\* the comfort a child lost to the last 'child.contagiousCry' signal
CryLoss(c) == pass.pre[c].mood.comfort - children[c].mood.comfort

CoLocated(c) == pass.pre[c].currentRoom = pass.pre[pass.crier].currentRoom

\* a loss that neither the 0 bound nor a crossing of 0.5 distorts
CryUnclamped(c) == pass.pre[c].mood.comfort >= Pct(15)

\* C12: at a contagious-cry signal every other child in the crier's room loses comfort,
\* an infant more than a non-infant, a child whose comfort is below 0.5 more than one of
\* its tier whose comfort is not, and the crier and the children elsewhere lose nothing.
C12_Contagion ==
  pass.crier # 0 =>
    /\ CryLoss(pass.crier) = 0
    /\ \A c \in Ids \ {pass.crier} :
         IF CoLocated(c)
         THEN CryUnclamped(c) => CryLoss(c) > 0
         ELSE CryLoss(c) = 0
    /\ \A c, d \in Ids \ {pass.crier} :
         (CoLocated(c) /\ CoLocated(d) /\ CryUnclamped(c) /\ CryUnclamped(d)) =>
           /\ ( /\ pass.pre[c].age = "infant" /\ pass.pre[d].age # "infant"
                /\ (pass.pre[c].mood.comfort < Pct(50)) = (pass.pre[d].mood.comfort < Pct(50)) )
                => CryLoss(c) > CryLoss(d)
           /\ ( /\ (pass.pre[c].age = "infant") = (pass.pre[d].age = "infant")
                /\ pass.pre[c].mood.comfort < Pct(50) /\ pass.pre[d].mood.comfort >= Pct(50) )
                => CryLoss(c) > CryLoss(d)

\* what the listener does: the crier loses nothing, every other infant loses 0.1 wherever
\* it is, every other child loses 0.05 if its comfort is below 0.5 and nothing otherwise
C12_AsListened ==
  pass.crier # 0 =>
    \A c \in Ids :
      CryLoss(c) = IF c = pass.crier THEN 0
                   ELSE IF pass.pre[c].age = "infant"
                        THEN pass.pre[c].mood.comfort - clamp(pass.pre[c].mood.comfort - Pct(10), 0, One)
                   ELSE IF pass.pre[c].mood.comfort < Pct(50)
                        THEN pass.pre[c].mood.comfort - clamp(pass.pre[c].mood.comfort - Pct(5), 0, One)
                   ELSE 0

\* a non-infant with comfort at least 0.5 in the crier's room kept its comfort
C12_BystanderUntouched ==
  /\ pass.crier # 0
  /\ \E c \in Ids \ {pass.crier} :
       /\ CoLocated(c) /\ pass.pre[c].age # "infant"
       /\ pass.pre[c].mood.comfort >= Pct(50) /\ CryLoss(c) = 0

\* an infant in another room lost comfort
C12_HeardElsewhere ==
  /\ pass.crier # 0
  /\ \E c \in Ids \ {pass.crier} : ~CoLocated(c) /\ CryLoss(c) > 0

\* the last call asked the machine for a state that is not registered
AskedUnknown ==
  /\ sm.call \in {"transitionTo", "update"}
  /\ sm.asked # "none" /\ sm.asked \notin sm.states

\* C13: a transition to a name that was never registered, asked of transitionTo or
\* reached through a fired transition, fails loudly: the call throws.
C13_UnknownStateFailsFast == AskedUnknown => sm.thrown

\* what the machine does instead: it warns on the console, calls no hook and keeps
\* its current state
C13_WarnsAndReturns ==
  AskedUnknown =>
    /\ ~sm.thrown
    /\ sm.out = << <<"console.warn", sm.asked>> >>
    /\ sm.current = sm.was

\* update fired a transition to the unregistered "ghost"
C13_GhostFired == AskedUnknown /\ sm.call = "update" /\ sm.was = "idle"

\* C14: a child's current action is WatchTV only by a selection made while the TV-on
\* signal given to ChildAI.update was true.
C14_WatchTVOnlyWhenOn ==
  \A i \in Ids : ais[i].currentAction = "watch_tv" => ais[i].tvIsOn

\* a fixed update, which hands tvIsOn = false to every ChildAI, made a Content child
\* pick WatchTV
C14_PickedWithTVOff ==
  \E i \in Ids :
    /\ ais[i].currentAction = "watch_tv" /\ ~ais[i].tvIsOn
    /\ ticks > 0 /\ <<"child.action", i, "watch_tv">> \in {emitted[k] : k \in DOMAIN emitted}

\* the last step made child i select a Content action
ContentSelected(i) ==
  /\ ais[i].state = Content
  /\ \E k \in DOMAIN emitted : emitted[k] = <<"child.action", i, ais[i].currentAction>>

\* the candidates and scores of that selection: the mood is the one the selection read,
\* before the interaction pass of the same fixed update
SelectionScores(i) ==
  LET ch == IF pass.valid THEN pass.pre ELSE children
  IN  ContentScores(World(ch, ais, << >>, last), i)

ListedOrder ==
  << "play_alone", "watch_tv", "follow_player", "explore", "sit_idle", "play_sibling" >>

\* C15: the Content selector takes a candidate of maximum score and, among several of
\* maximum score, the one listed first in the order PlayAlone, WatchTV, FollowPlayer,
\* Explore, SitIdle, PlayWithSibling.
C15_FirstMaximum ==
  \A i \in Ids :
    ContentSelected(i) =>
      LET scores == SelectionScores(i)
      IN  /\ \A k \in 1 .. Len(scores) : scores[k][1] = ListedOrder[k]
          /\ \E k \in 1 .. Len(scores) :
               /\ scores[k][1] = ais[i].currentAction
               /\ \A j \in 1 .. Len(scores) : scores[j][2] <= scores[k][2]
               /\ \A j \in 1 .. (k - 1) : scores[j][2] < scores[k][2]

\* WatchTV was selected on a tie with a candidate listed after it
C15_Witness ==
  \E i \in Ids :
    /\ ContentSelected(i) /\ ais[i].currentAction = "watch_tv"
    /\ LET scores == SelectionScores(i)
       IN  \E j \in 3 .. Len(scores) : scores[j][2] = scores[2][2]

\* PlayAlone was selected on a three-way tie, FollowPlayer on a tie with Explore
C15_TieAtTop ==
  \E i \in Ids :
    /\ ContentSelected(i) /\ ais[i].currentAction = "play_alone"
    /\ LET scores == SelectionScores(i)
       IN  scores[1][2] = scores[3][2] /\ scores[1][2] = scores[4][2]

C15_TieFollowExplore ==
  \E i \in Ids :
    /\ ContentSelected(i) /\ ais[i].currentAction = "follow_player"
    /\ LET scores == SelectionScores(i)
       IN  scores[3][2] = scores[4][2]

\* C16: no regime is terminal: under the fixed-step driver alone, a child in any of the
\* five regimes eventually leaves it.
C16_NoTerminalRegime ==
  \A i \in Ids : \A r \in ChildState : (ais[i].state = r) ~> (ais[i].state # r)

\* a child that started asleep has slept itself rested, gone through Content, Needy,
\* Upset and Tantrum and has just collapsed into Sleeping again
C16_Witness ==
  \E i \in Ids :
    /\ last[i].from = Tantrum /\ last[i].fired /\ last[i].to = Sleeping
    /\ ais[i].state = Sleeping
    /\ children[i].age = "infant"

C16_LeftSleeping == \E i \in Ids : last[i].fired /\ last[i].from = Sleeping /\ last[i].to = Content
C16_LeftContent == \E i \in Ids : last[i].fired /\ last[i].from = Content
C16_LeftNeedy == \E i \in Ids : last[i].fired /\ last[i].from = Needy
C16_LeftUpset == \E i \in Ids : last[i].fired /\ last[i].from = Upset

\* the last step made child i select an action of regime r; SelectionMood is the mood
\* the selection read, before the interaction pass of the same fixed update
Selected(i, r) ==
  /\ ais[i].state = r
  /\ \E k \in DOMAIN emitted : emitted[k] = <<"child.action", i, ais[i].currentAction>>

SelectionMood(i) == IF pass.valid THEN pass.pre[i].mood ELSE children[i].mood

\* C17: the Needy action is a function of urgentNeed(): hunger gives RequestFood, boredom
\* RequestAttention, comfort RequestComfort, anything else (fatigue) RequestAttention;
\* after a Needy selection the action is one of the Needy actions.
C17_NeedyAction ==
  \A i \in Ids :
    Selected(i, Needy) =>
      LET need == urgentNeed(SelectionMood(i))
      IN  /\ ais[i].currentAction \in NeedyAction
          /\ need = "hunger" => ais[i].currentAction = "request_food"
          /\ need = "boredom" => ais[i].currentAction = "request_attention"
          /\ need = "comfort" => ais[i].currentAction = "request_comfort"
          /\ need \notin {"hunger", "boredom", "comfort"}
               => ais[i].currentAction = "request_attention"

\* a Needy selection with fatigue the most urgent need took the fallback
C17_Witness ==
  \E i \in Ids :
    /\ Selected(i, Needy) /\ urgentNeed(SelectionMood(i)) = "fatigue"
    /\ ais[i].currentAction = "request_attention"

C17_ByHunger == \E i \in Ids : Selected(i, Needy) /\ urgentNeed(SelectionMood(i)) = "hunger"
C17_ByBoredom == \E i \in Ids : Selected(i, Needy) /\ urgentNeed(SelectionMood(i)) = "boredom"
C17_ByComfort == \E i \in Ids : Selected(i, Needy) /\ urgentNeed(SelectionMood(i)) = "comfort"

UpsetTree(personality, mood) ==
  IF personality.shyness > Pct(60) THEN "hiding"
  ELSE IF personality.stubbornness > Pct(60) THEN "refusing"
  ELSE IF personality.energy > Pct(60) /\ mood.mischief > Pct(50) THEN "breaking"
  ELSE "crying"

TantrumTree(personality) ==
  IF personality.energy > Pct(70) THEN "throwing"
  ELSE IF personality.stubbornness > Pct(70) THEN "floor_tantrum"
  ELSE "screaming"

\* C18: on entering Upset the action is Hiding if shyness > 0.6, else RefusingInteraction
\* if stubbornness > 0.6, else BreakingThings if energy > 0.6 and mischief > 0.5, else
\* Crying; on entering Tantrum it is Throwing if energy > 0.7, else FloorTantrum if
\* stubbornness > 0.7, else Screaming.
C18_DecisionTrees ==
  \A i \in Ids :
    /\ Selected(i, Upset)
         => ais[i].currentAction = UpsetTree(children[i].personality, SelectionMood(i))
    /\ Selected(i, Tantrum)
         => ais[i].currentAction = TantrumTree(children[i].personality)

\* a shy and stubborn child entering Upset hides
C18_Witness ==
  \E i \in Ids :
    /\ Selected(i, Upset) /\ last[i].fired /\ last[i].to = Upset
    /\ children[i].personality.shyness > Pct(60)
    /\ children[i].personality.stubbornness > Pct(60)
    /\ ais[i].currentAction = "hiding"

C18_Refusing == \E i \in Ids : Selected(i, Upset) /\ ais[i].currentAction = "refusing"
C18_Breaking == \E i \in Ids : Selected(i, Upset) /\ ais[i].currentAction = "breaking"
C18_Crying ==
  \E i \in Ids : /\ Selected(i, Upset) /\ ais[i].currentAction = "crying"
                 /\ children[i].personality.energy > Pct(60)
C18_Throwing ==
  \E i \in Ids : /\ Selected(i, Tantrum) /\ ais[i].currentAction = "throwing"
                 /\ children[i].personality.stubbornness > Pct(70)
C18_FloorTantrum == \E i \in Ids : Selected(i, Tantrum) /\ ais[i].currentAction = "floor_tantrum"
C18_Screaming ==
  \E i \in Ids : /\ Selected(i, Tantrum) /\ ais[i].currentAction = "screaming"
                 /\ children[i].personality.energy = Pct(70)

\* the children have just been created: no fixed update and no call yet
JustCreated == ticks = 0 /\ budget = MaxExternal /\ ~pass.valid /\ pass.crier = 0

\* C19: a child starts in Sleeping exactly when its initial fatigue is greater than 0.8,
\* and in Content otherwise; fatigue 0.85 starts in Sleeping, fatigue 0.3 in Content.
C19_InitialRegime ==
  JustCreated =>
    \A i \in Ids :
      /\ ais[i].state = Sleeping <=> children[i].mood.fatigue > Pct(80)
      /\ ais[i].state = Content <=> children[i].mood.fatigue <= Pct(80)
      /\ children[i].mood.fatigue = Pct(85) => ais[i].state = Sleeping
      /\ children[i].mood.fatigue = Pct(30) => ais[i].state = Content
      /\ <<"child.stateChange", i, ais[i].state>> \in {emitted[k] : k \in DOMAIN emitted}

\* a child created with fatigue 0.3 in Content next to one created with 0.85 in Sleeping
C19_Witness ==
  /\ JustCreated
  /\ \E i, j \in Ids :
       /\ children[i].mood.fatigue = Pct(30) /\ ais[i].state = Content
       /\ children[j].mood.fatigue = Pct(85) /\ ais[j].state = Sleeping

\* a child created with fatigue exactly 0.8 starts in Content
C19_AtThreshold ==
  /\ JustCreated
  /\ \E i \in Ids : children[i].mood.fatigue = Pct(80) /\ ais[i].state = Content

\* the four needs of the stand-alone MoodVector in enumeration order
NeedList ==
  << <<"hunger", mv.hunger>>, <<"boredom", mv.boredom>>, <<"fatigue", mv.fatigue>>,
     <<"comfort", One - mv.comfort>> >>

C20_TieBelowHunger ==
  /\ obs.call = "read" /\ obs.urgentNeed = "boredom"
  /\ mv.boredom = mv.fatigue /\ mv.fatigue = One - mv.comfort /\ mv.hunger < mv.boredom

C20_TieFatigueComfort ==
  /\ obs.call = "read" /\ obs.urgentNeed = "fatigue"
  /\ mv.fatigue = One - mv.comfort

\* the signals of the step just taken
Signals(ev) == {ev[k] : k \in DOMAIN ev}

\* C21: every change of a child's current action label comes with a 'child.action' signal
\* of the same step carrying the child's id and the new label; the label never changes
\* without one.
C21_ActionChangeSignalled ==
  [][\A i \in Ids :
       ais'[i].currentAction # ais[i].currentAction =>
         <<"child.action", i, ais'[i].currentAction>> \in Signals(emitted')]_vars

\* a fixed update moved a child from Content to Needy: its label changed from a Content
\* action to a Needy action, and the signal with the new label is among the step's signals
C21_Witness ==
  \E i \in Ids :
    /\ pass.valid /\ last[i].fired /\ last[i].from = Content /\ last[i].to = Needy
    /\ ais[i].currentAction \in NeedyAction
    /\ <<"child.action", i, ais[i].currentAction>> \in Signals(emitted)

\* the child selected an action in the step just taken
Reselected(i) == \E a \in ContentAction \cup NeedyAction : <<"child.action", i, a>> \in Signals(emitted)

\* the re-evaluation interval of a regime, in ticks
IntervalOf(r) == IF r = Content THEN Sec(10) ELSE Sec(15)

\* C22: a child's action is selected on every entry into Content or Needy and, while it
\* stays in the regime, again on the first fixed update by which more than 10 s (Content)
\* or 15 s (Needy) of in-regime time have passed since the last selection, and at no
\* other update; the time since the last selection never stands above the interval.
C22_Reselection ==
  \A i \in Ids :
    (pass.valid /\ ais[i].state \in {Content, Needy}) =>
      /\ last[i].fired => (Reselected(i) /\ ais[i].actionTimer = 0)
      /\ ~last[i].fired =>
           /\ Reselected(i) <=> last[i].timer + pass.dt > IntervalOf(ais[i].state)
           /\ Reselected(i) => ais[i].actionTimer = 0
           /\ ~Reselected(i) => ais[i].actionTimer = last[i].timer + pass.dt
      /\ ais[i].actionTimer <= IntervalOf(ais[i].state)

\* a child that stayed in Content has selected again when 10 s had passed
C22_Witness ==
  \E i \in Ids :
    /\ pass.valid /\ ais[i].state = Content /\ ~last[i].fired
    /\ last[i].timer = Sec(10) /\ Reselected(i) /\ ais[i].actionTimer = 0

\* a child that stayed in Needy has selected again when 15 s had passed
C22_NeedyAgain ==
  \E i \in Ids :
    /\ pass.valid /\ ais[i].state = Needy /\ ~last[i].fired
    /\ last[i].timer = Sec(15) /\ Reselected(i) /\ last[i].since > Sec(15)

\* a child has entered Needy and selected on entry
C22_OnEntry ==
  \E i \in Ids :
    /\ pass.valid /\ ais[i].state = Needy /\ last[i].fired /\ Reselected(i)

\* C23: within one fixed update each child's mood is advanced before that child's
\* transitions are evaluated (the guards see the advanced vector), and the pairwise
\* interaction pass runs after the mood and regime update of every child of that step.
C23_StepOrder ==
  [][ticks' # ticks =>
       \A i \in Ids :
         LET c == children[i]
             advanced == update(c.mood, pass'.dt, c.isSleeping, c.isPlaying, c.isBeingCarried)
         IN  /\ last'[i].seen = advanced
             /\ last'[i].from = ais[i].state
             /\ pass'.pre[i].mood = advanced
             /\ pass'.pre[i].isSleeping = (ais'[i].state = Sleeping)
             /\ pass'.pre[i].isPlaying = children'[i].isPlaying]_vars

\* a child left Content for Needy on a hunger that only the step's own advance carried
\* above 0.7, and the interaction pass of the same step then changed a mood
C23_Witness ==
  /\ pass.valid /\ pass.dt > 0
  /\ \E i \in Ids :
       /\ last[i].fired /\ last[i].from = Content /\ last[i].to = Needy
       /\ last[i].seen.hunger > Pct(70)
       /\ last[i].seen.hunger - hungerGrowth * pass.dt <= Pct(70)
       /\ last[i].seen.boredom <= Pct(70) /\ last[i].seen.fatigue <= Pct(70)
       /\ last[i].seen.comfort >= Pct(30) /\ last[i].seen.mischief <= Pct(70)
  /\ \E j \in Ids : children[j].mood # pass.pre[j].mood

C24_SeedMatters ==
  /\ gen.phase = "generate"
  /\ \E p, q \in gen.made :
       /\ p.index = q.index /\ p.ageGroup = q.ageGroup /\ p.seed # q.seed
       /\ p.child.mood # q.child.mood /\ p.child.personality # q.child.personality

\* C25: a child's isPlaying flag is set only while its regime is Content and its action is
\* PlayAlone or PlayWithSibling; under driver ticks a child in Needy, Upset or Tantrum
\* never has isPlaying set.
C25_PlayingOnlyInContent ==
  \A i \in Ids :
    children[i].isPlaying =>
      /\ ais[i].state = Content
      /\ ais[i].currentAction \in {"play_alone", "play_sibling"}

\* a child that went from Content to Needy while playing still has the flag, and the
\* last update lowered its boredom as for a playing child
C25_StillPlayingInNeedy ==
  \E i \in Ids :
    /\ pass.valid /\ ais[i].state = Needy /\ ~last[i].fired
    /\ children[i].isPlaying
    /\ last[i].seen.boredom < Pct(60)

\* C26: no child is in a regime A after one fixed update, in another regime B after the
\* next and in A again after the one after that; in particular not between Upset and
\* Tantrum with hunger above 0.9 and fatigue between 0.95 and 0.98.
C26_NoFlapping ==
  [][\A i \in Ids :
       ~ /\ pass.valid /\ last[i].fired
         /\ ais[i].state # last[i].from
         /\ ais'[i].state = last[i].from]_vars

\* a child with hunger above 0.9 and fatigue between 0.95 and 0.98 entered Tantrum in
\* one update and left it for Upset in the next
C26_FlapsInBand ==
  \E i \in Ids :
    /\ pass.valid /\ last[i].fired /\ last[i].entered
    /\ last[i].from = Tantrum /\ last[i].to = Upset
    /\ last[i].seen.hunger > Pct(90)
    /\ last[i].seen.fatigue > Pct(95) /\ last[i].seen.fatigue < Pct(98)
    /\ last[i].timer = 0

\* a child whose Tantrum timed out went to Upset and, one update later, back to Tantrum
C26_FlapsAfterTimeout ==
  \E i \in Ids :
    /\ pass.valid /\ last[i].fired /\ last[i].entered
    /\ last[i].from = Upset /\ last[i].to = Tantrum
    /\ last[i].seen.fatigue <= Pct(95)
    /\ last[i].timer = 0 /\ ticks > Sec(45)

\* the action labels that report distress
DistressActions == UpsetAction \cup TantrumAction

\* C27: a child's action label is a distress action (crying, hiding, refusing, breaking,
\* screaming, throwing, floor_tantrum, contagious_crying) only while its regime is Upset
\* or Tantrum; once it has left them, also for Sleeping, the label is no distress action.
C27_DistressOnlyWhenUpset ==
  \A i \in Ids :
    ais[i].currentAction \in DistressActions => ais[i].state \in {Upset, Tantrum}

\* a child that collapsed from Tantrum into Sleeping still shows its Tantrum action
C27_AsleepWithTantrumAction ==
  \E i \in Ids :
    /\ last[i].fired /\ last[i].from = Tantrum /\ last[i].to = Sleeping
    /\ ais[i].state = Sleeping /\ children[i].isSleeping
    /\ ais[i].currentAction \in TantrumAction

\* leaving Upset for Needy replaces the label
C27_ClearedOnNeedy ==
  \E i \in Ids :
    /\ last[i].fired /\ last[i].from = Upset /\ last[i].to = Needy
    /\ ais[i].currentAction \in NeedyAction


\* C28: left without care (no feed, play, comfort or apply, never held) under the
\* fixed-step driver, every child eventually enters Tantrum, and from the moment its
\* hunger exceeds 0.8 no transition takes it into Content any more.
C28_UnattendedEscalates ==
  /\ \A i \in Ids : <>(ais[i].state = Tantrum)
  /\ \A i \in Ids :
       [](children[i].mood.hunger > Pct(80) =>
            [](last[i].fired => last[i].to # Content))

\* the child that started awake with hunger 0.78 has turned hungrier than 0.8 and has
\* just escalated from Upset into Tantrum
C28_Witness ==
  \E i \in Ids :
    /\ children[i].age = "child"
    /\ children[i].mood.hunger > Pct(80)
    /\ children[i].mood.hunger < One
    /\ pass.valid /\ last[i].fired
    /\ last[i].from = Upset /\ last[i].to = Tantrum
    /\ ais[i].state = Tantrum

\* the tick at which that child's hunger passes 0.8
C28_HungerPasses ==
  \E i \in Ids :
    /\ children[i].age = "child"
    /\ pass.valid
    /\ last[i].seen.hunger > Pct(80)
    /\ last[i].seen.hunger - hungerGrowth * pass.dt <= Pct(80)

\* a child woken by hunger although it would not yet count as rested
C28_WokenHungry ==
  \E i \in Ids :
    /\ pass.valid /\ last[i].fired
    /\ last[i].from = Sleeping /\ last[i].to = Needy
    /\ last[i].seen.hunger > Pct(80)


\* C29: under the driver's fixed step of 1/60 s and with no external mood change, Content
\* -> Sleeping never fires: a Content child's fatigue is never found above 0.9, a fatigue
\* found above 0.7 sends the child to Needy in that update, and every entry into Sleeping
\* after the initial one comes from Tantrum with fatigue above 0.98.
C29_NoSleepFromContent ==
  \A i \in Ids :
    pass.valid =>
      /\ last[i].from = Content =>
           /\ last[i].seen.fatigue <= Pct(90)
           /\ Sleeping \notin last[i].held
           /\ last[i].seen.fatigue > Pct(70) => (last[i].fired /\ last[i].to = Needy)
      /\ (last[i].fired /\ last[i].to = Sleeping) =>
           (last[i].from = Tantrum /\ last[i].seen.fatigue > Pct(98))

\* a child that had stayed in Content has been sent to Needy by its fatigue alone, the
\* fatigue one step past 0.7
C29_Witness ==
  \E i \in Ids :
    /\ pass.valid /\ last[i].fired
    /\ last[i].from = Content /\ last[i].to = Needy
    /\ last[i].stayed > 0
    /\ last[i].seen.fatigue > Pct(70)
    /\ last[i].seen.fatigue <= Pct(70) + fatigueGrowth
    /\ ~hasUrgentNeed([last[i].seen EXCEPT !.fatigue = 0], Pct(70))

\* a child that started awake with fatigue 0.8 leaves Content in its first update, for Needy
C29_TiredStart ==
  \E i \in Ids :
    /\ pass.valid /\ ticks = 1 /\ last[i].fired
    /\ last[i].from = Content /\ last[i].to = Needy
    /\ last[i].seen.fatigue = Pct(80) + fatigueGrowth

\* a child collapses from Tantrum into Sleeping
C29_Collapsed ==
  \E i \in Ids :
    /\ pass.valid /\ last[i].fired
    /\ last[i].from = Tantrum /\ last[i].to = Sleeping
    /\ ais[i].state = Sleeping


\* the labels declared in the four enums that no select function assigns
NeverSelected == {"play_sibling", "request_bathroom", "contagious_crying"}

LabelTaken(l) == \E i \in Ids : ais[i].currentAction = l

\* C30: every action label declared for a regime is reachable; for play_sibling,
\* request_bathroom and contagious_crying: in the endless fixed-step run some child's
\* current action eventually takes the label.
C30_EveryLabelTaken == \A l \in NeverSelected : <>LabelTaken(l)

\* what the code does instead: no child ever has one of the three labels, no ChildAI
\* ever knows a sibling, and no fixed update emits the contagious-cry signal
C30_NeverSelected ==
  /\ \A l \in NeverSelected : ~LabelTaken(l)
  /\ \A i \in Ids : ~ais[i].nearestSibling
  /\ pass.valid => \A k \in DOMAIN emitted : emitted[k][1] # "child.contagiousCry"

\* a bored Content child with another child within reach, for which playing with the
\* sibling would score highest, plays alone
C30_SiblingInReach ==
  \E i \in Ids : \E j \in Ids \ {i} :
    /\ ais[i].state = Content
    /\ children[i].currentRoom = children[j].currentRoom
    /\ distanceTo(children[i].position, children[j].position) <= ProximityRadius
    /\ LET scores == ContentScores([ch |-> children, ai |-> ais], i)
       IN  \A k \in DOMAIN scores :
             scores[k][2] < children[i].mood.boredom * 5 + Pct(30) * 10
    /\ ais[i].currentAction = "play_alone"


\* C31: in every state reached through construction and fixed updates, a child's
\* isSleeping flag is true exactly when its ChildAI is in Sleeping.
C31_AsleepFlagMirrorsRegime ==
  \A i \in Ids : children[i].isSleeping <=> (ais[i].state = Sleeping)

\* a child still tired enough to have started asleep has just been woken by hunger and
\* its flag cleared by the exit from Sleeping
C31_Witness ==
  /\ pass.valid
  /\ \E i \in Ids :
       /\ last[i].fired /\ last[i].from = Sleeping
       /\ ais[i].state # Sleeping /\ ~children[i].isSleeping
       /\ children[i].mood.fatigue > Pct(80)

\* a child collapses from Tantrum and its flag is set by the entry
C31_FlagSetOnCollapse ==
  \E i \in Ids :
    /\ pass.valid /\ last[i].fired
    /\ last[i].from = Tantrum /\ last[i].to = Sleeping
    /\ children[i].isSleeping


\* the places of the signals `name` of child i in a signal sequence
Positions(ev, name, i) == {k \in DOMAIN ev : ev[k][1] = name /\ ev[k][2] = i}

\* the signals of one entry of child i into `state`: one 'child.stateChange' naming the
\* state, before every 'child.action' of the child, and 'child.tantrum' once for Tantrum
EntrySignals(ev, i, state) ==
  LET changes == Positions(ev, "child.stateChange", i)
  IN  /\ Cardinality(changes) = 1
      /\ \A k \in changes :
           /\ ev[k][3] = state
           /\ \A a \in Positions(ev, "child.action", i) : k < a
      /\ Cardinality(Positions(ev, "child.tantrum", i)) = (IF state = Tantrum THEN 1 ELSE 0)

\* C32: every entry into a regime, the initial one included, emits exactly one
\* 'child.stateChange' naming the entered regime, before any 'child.action' of that
\* entry, and 'child.tantrum' exactly once when the regime is Tantrum; a step that enters
\* no regime emits neither, so the latest 'child.stateChange' of a child names its regime.
C32_RegimeSignals ==
  /\ \A i \in Ids : EntrySignals(emitted, i, ais[i].state)
  /\ [][\A i \in Ids :
          /\ ais'[i].state # ais[i].state => ticks' # ticks
          /\ ticks' # ticks =>
               IF ais'[i].state # ais[i].state
               THEN EntrySignals(emitted', i, ais'[i].state)
               ELSE /\ Positions(emitted', "child.stateChange", i) = {}
                    /\ Positions(emitted', "child.tantrum", i) = {}]_vars

\* a child has just entered Tantrum: its regime change, then its action, then the
\* tantrum signal, each once
C32_Witness ==
  \E i \in Ids :
    /\ pass.valid /\ last[i].fired /\ last[i].to = Tantrum
    /\ \E k \in DOMAIN emitted : \E a \in DOMAIN emitted : \E t \in DOMAIN emitted :
         /\ k < a /\ a < t
         /\ emitted[k] = <<"child.stateChange", i, Tantrum>>
         /\ emitted[a] = <<"child.action", i, ais[i].currentAction>>
         /\ emitted[t] = <<"child.tantrum", i>>

\* a fixed update in which a child stays in Tantrum: no regime signal for it
C32_QuietStay ==
  \E i \in Ids :
    /\ pass.valid /\ ~last[i].fired /\ ais[i].state = Tantrum
    /\ Positions(emitted, "child.stateChange", i) = {}
    /\ Positions(emitted, "child.tantrum.tick", i) # {}


\* C33: a fixed update changes a child's regime at most once, and an update in which a
\* transition fires runs no onUpdate for the child: no 'child.upset' and no
\* 'child.tantrum.tick' of the child is emitted and its actionTimer is not advanced.
C33_OneChangePerTick ==
  \A i \in Ids :
    pass.valid =>
      /\ Cardinality(Positions(emitted, "child.stateChange", i)) <= 1
      /\ last[i].fired =>
           /\ Cardinality(Positions(emitted, "child.stateChange", i)) = 1
           /\ ais[i].state = last[i].to
           /\ ais[i].state # last[i].from
           /\ Positions(emitted, "child.upset", i) = {}
           /\ Positions(emitted, "child.tantrum.tick", i) = {}
           /\ ais[i].actionTimer = (IF ais[i].state = Sleeping THEN last[i].timer ELSE 0)

\* a child in Tantrum for which both guards held (fatigue above 0.98) has made the one
\* transition to Sleeping, with no tantrum-tick in that update
C33_Witness ==
  \E i \in Ids :
    /\ pass.valid /\ pass.dt > 0 /\ last[i].fired
    /\ last[i].from = Tantrum
    /\ last[i].held = {Upset, Sleeping}
    /\ ais[i].state = Sleeping
    /\ Positions(emitted, "child.tantrum.tick", i) = {}

\* a child has entered Tantrum from Upset: neither 'child.upset' nor 'child.tantrum.tick'
C33_EnteredTantrum ==
  \E i \in Ids :
    /\ pass.valid /\ pass.dt > 0 /\ last[i].fired
    /\ last[i].from = Upset /\ ais[i].state = Tantrum
    /\ Positions(emitted, "child.upset", i) = {}
    /\ Positions(emitted, "child.tantrum.tick", i) = {}

\* the update after it, in which the child stays: 'child.tantrum.tick' is emitted
C33_TickAfterEntry ==
  \E i \in Ids :
    /\ pass.valid /\ ~last[i].fired /\ last[i].entered
    /\ ais[i].state = Tantrum
    /\ Positions(emitted, "child.tantrum.tick", i) # {}


\* the direction of every scalar from the vector `b` before an update(dt, ...) with
\* dt > 0 to the vector `a` after it; the boredom and fatigue that gate the growth of
\* mischief are the ones the update has just written
Direction(b, a, dt, isSleeping, isPlaying, isBeingHeld) ==
  /\ isSleeping =>
       /\ a.fatigue <= b.fatigue /\ a.boredom <= b.boredom /\ a.mischief <= b.mischief
       /\ a.hunger = b.hunger
  /\ ~isSleeping =>
       /\ a.hunger >= b.hunger /\ a.fatigue >= b.fatigue
       /\ ~isPlaying => a.boredom >= b.boredom
       /\ isPlaying =>
            a.boredom = (IF b.boredom > 2 * boredomGrowth * dt
                         THEN b.boredom - 2 * boredomGrowth * dt ELSE 0)
       /\ a.mischief > b.mischief => (a.boredom > Pct(50) /\ a.fatigue < Pct(70))
  /\ isBeingHeld => a.trust = b.trust
  /\ ~isBeingHeld => a.trust <= b.trust
  /\ a.comfort <= b.comfort

\* C34: under MoodVector.update with dt > 0: asleep, fatigue, boredom and mischief never
\* increase and hunger is unchanged; awake, hunger and fatigue never decrease, boredom
\* never decreases unless the child is playing and then falls at twice its growth rate,
\* and mischief increases only with boredom above 0.5 and fatigue below 0.7; trust is
\* unchanged while held and never increases otherwise; comfort never increases.
C34_DirectionOfChange ==
  [][/\ (~rt.oneDone /\ rt'.oneDone) =>
          Direction(rt.start, rt'.one, Sec(1), rt.isSleeping, rt.isPlaying, rt.isBeingHeld)
     /\ rt'.k # rt.k =>
          Direction(rt.ten, rt'.ten, Sec(1) \div 10, rt.isSleeping, rt.isPlaying,
                    rt.isBeingHeld)]_vars

\* an awake child, not playing and not held, after one second: hunger, boredom, fatigue
\* and mischief have grown, trust and comfort have fallen
C34_Witness ==
  /\ rt.phase = "run" /\ rt.oneDone
  /\ ~rt.isSleeping /\ ~rt.isPlaying /\ ~rt.isBeingHeld
  /\ rt.one.hunger > rt.start.hunger /\ rt.one.boredom > rt.start.boredom
  /\ rt.one.fatigue > rt.start.fatigue /\ rt.one.mischief > rt.start.mischief
  /\ rt.one.trust < rt.start.trust /\ rt.one.comfort < rt.start.comfort

\* a sleeping child held for a second: fatigue, boredom and mischief have fallen, hunger
\* and trust are what they were
C34_AsleepHeld ==
  /\ rt.phase = "run" /\ rt.oneDone /\ rt.isSleeping /\ rt.isBeingHeld
  /\ rt.one.fatigue < rt.start.fatigue /\ rt.one.boredom < rt.start.boredom
  /\ rt.one.mischief < rt.start.mischief
  /\ rt.one.hunger = rt.start.hunger /\ rt.one.trust = rt.start.trust

\* a playing child after a tenth of a second: boredom lower by twice the growth
C34_Playing ==
  /\ rt.phase = "run" /\ rt.k = 1 /\ ~rt.isSleeping /\ rt.isPlaying
  /\ rt.ten.boredom = rt.start.boredom - 2 * boredomGrowth * (Sec(1) \div 10)
  /\ rt.ten.boredom > 0

\* mischief grows in a step that starts with boredom at or below 0.5 and ends above it
C34_GatedByNewBoredom ==
  /\ rt.phase = "run" /\ rt.oneDone /\ ~rt.isSleeping
  /\ rt.start.boredom <= Pct(50) /\ rt.one.boredom > Pct(50)
  /\ rt.one.mischief > rt.start.mischief


\* the hooks the last call on the machine ran
HooksRun == {sm.out[k][1] : k \in DOMAIN sm.out} \cap {"onExit", "onEnter", "onUpdate"}

\* C35: a transition to an unregistered name leaves the machine as it was: the current
\* state stays, no onExit and no onEnter runs, and when the transition was fired from
\* update the current state's onUpdate does not run in that call either.
C35_UnknownStateNoEffect ==
  AskedUnknown => (sm.current = sm.was /\ HooksRun = {})

\* update in "idle" with both flags set: the priority-2 transition to the unregistered
\* "ghost" fired, the machine is still in "idle" and ran no hook
C35_Witness ==
  /\ AskedUnknown /\ sm.call = "update"
  /\ sm.flags = {"go", "fault"}
  /\ sm.was = "idle" /\ sm.current = "idle"
  /\ "busy" \in sm.states

\* transitionTo("ghost") called on a machine that has a current state
C35_DirectCall ==
  /\ AskedUnknown /\ sm.call = "transitionTo"
  /\ sm.was # "none" /\ sm.current = sm.was

\* the update after the flag is cleared runs onUpdate again
C35_UpdateResumes ==
  /\ sm.phase = "machine" /\ sm.call = "update" /\ sm.asked = "none"
  /\ sm.current = "idle" /\ "onUpdate" \in HooksRun


\* child i has no other child in its room within the proximity radius
Alone(ch, i) == \A j \in Ids \ {i} : ~near(ch, i, j)

\* a child without its mood vector
Unmooded(c) == [c EXCEPT !.mood = DefaultMood]

C36_OtherRoom ==
  /\ pass.valid /\ pass.dt > 0
  /\ \E i \in Ids : \E j \in Ids \ {i} :
       /\ pass.pre[i].age = "child" /\ pass.pre[j].age # "child"
       /\ pass.pre[i].mood.mischief > Pct(70)
       /\ pass.pre[i].currentRoom # pass.pre[j].currentRoom
       /\ distanceTo(pass.pre[i].position, pass.pre[j].position) <= ProximityRadius
       /\ Alone(pass.pre, j)
       /\ children[j].mood = pass.pre[j].mood

\* at exactly 3 units in the same room the pass does act
C36_AtTheRadius ==
  /\ pass.valid /\ pass.dt > 0
  /\ \E i \in Ids : \E j \in Ids \ {i} :
       /\ pass.pre[i].currentRoom = pass.pre[j].currentRoom
       /\ distanceTo(pass.pre[i].position, pass.pre[j].position) = ProximityRadius
       /\ children[j].mood # pass.pre[j].mood


\* C37: the timer of the Upset and Tantrum timeouts is measured from the latest entry: it
\* is 0 on every entry into Upset and into Tantrum and afterwards counts the fixed
\* updates of the visit only, so a child leaves Upset for Tantrum by the timeout alone
\* only after more than 30 s in the visit, and Tantrum for Upset only after more than 45 s.
C37_TimerFromEntry ==
  \A i \in Ids :
    pass.valid =>
      /\ (last[i].fired /\ ais[i].state \in {Upset, Tantrum}) => ais[i].actionTimer = 0
      /\ ais[i].state \in {Upset, Tantrum} =>
           ais[i].actionTimer = last[i].since * PhysicsStep
      /\ (/\ last[i].fired /\ last[i].from = Upset /\ last[i].to = Tantrum
          /\ ~(last[i].seen.hunger > Pct(90) /\ last[i].seen.fatigue > Pct(80))) =>
           /\ last[i].timer = last[i].stayed * PhysicsStep
           /\ last[i].stayed * PhysicsStep > Sec(UpsetTimeout)
      /\ (/\ last[i].fired /\ last[i].from = Tantrum /\ last[i].to = Upset
          /\ last[i].seen.fatigue <= Pct(95)) =>
           /\ last[i].timer = last[i].stayed * PhysicsStep
           /\ last[i].stayed * PhysicsStep > Sec(TantrumTimeout)

\* a child that entered Tantrum from an Upset visit of more than 30 s has its timer at 0
C37_Witness ==
  \E i \in Ids :
    /\ pass.valid /\ last[i].fired
    /\ last[i].from = Upset /\ last[i].to = Tantrum
    /\ ~(last[i].seen.hunger > Pct(90) /\ last[i].seen.fatigue > Pct(80))
    /\ last[i].timer > Sec(UpsetTimeout)
    /\ ais[i].state = Tantrum /\ ais[i].actionTimer = 0

\* the same for a return to Upset from a Tantrum visit of more than 45 s
C37_BackInUpset ==
  \E i \in Ids :
    /\ pass.valid /\ last[i].fired
    /\ last[i].from = Tantrum /\ last[i].to = Upset
    /\ last[i].seen.fatigue <= Pct(95)
    /\ last[i].timer > Sec(TantrumTimeout)
    /\ ais[i].state = Upset /\ ais[i].actionTimer = 0

\* half a minute into a Tantrum visit that followed a timed-out Upset visit, the timer
\* shows the 30 s of this visit
C37_CountsThisVisit ==
  \E i \in Ids :
    /\ pass.valid /\ ais[i].state = Tantrum /\ ticks > Sec(UpsetTimeout) + Sec(30)
    /\ ais[i].actionTimer = Sec(30)

====
